---- MODULE Spec2Model ----
(***************************************************************************)
(* Token disambiguation layer of V3ParseImp (src/src/V3ParseImp.cpp):      *)
(* the lookahead queue m_tokensAhead, the structural scanners              *)
(* tokenPipeScan*, the syntactic reclassifier tokenPipeline, the           *)
(* symbol-aware classifier tokenPipelineSym and the entry point            *)
(* tokenToBison.                                                           *)
(***************************************************************************)
EXTENDS Integers, Sequences, FiniteSets, TLC

\* ------------------------------------------------------------------------
\* Bounds of the model
\* ------------------------------------------------------------------------
\* longest raw token stream (before the end-of-input sentinel)
MaxLen == 4
\* deepest position a direct tokenPeekp / scanner call is started at
MaxPeek == 1
\* longest raw token stream when the scanners are called directly
ScanLen == 3
\* longest raw token stream drawn exhaustively for the reclassifier rules
PipeLen == 4
\* longest raw token stream drawn exhaustively for the step-wise execution
LiveLen == 3
\* deepest nesting of `line enter directives
MaxNest == 2
\* largest line number, in a directive or reached by the lexer
MaxLine == 2
\* deepest lint-state stack
MaxSaves == 2
\* most lint_restore errors counted
MaxLintErrors == 2
\* most FileLine objects allocated
MaxObjs == 6
\* longest text pushed at once
MaxText == 2
\* most bytes pushed in a run
MaxPushed == 5
\* largest max_size the lexer asks for
MaxSize == 3

\* ------------------------------------------------------------------------
\* Token kinds (the names of V3ParseBison.h; single characters stand for
\* themselves; tok == 0 is the end-of-input sentinel)
\* ------------------------------------------------------------------------
tEOF == "0"

\* kinds the raw lexer hands over unrefined
LexKinds ==
    {"yaID__LEX", "yCONST__LEX", "yGLOBAL__LEX", "yLOCAL__LEX", "yNEW__LEX",
     "ySTATIC__LEX", "yTYPE__LEX", "yVIRTUAL__LEX", "yWITH__LEX"}

\* what a symbol-table lookup can answer: nothing, or an entry whose node is
\* of one of these types
LookupResults == {"none", "Typedef", "TypedefFwd", "Class", "Package", "Other"}

\* a raw token as the lexer produces it: kind and text
Tok(k, s) == [token |-> k, strp |-> s]
K(k) == Tok(k, "")
Id(s) == Tok("yaID__LEX", s)

\* ------------------------------------------------------------------------
\* State
\* ------------------------------------------------------------------------
VARIABLES
    raw,              \* the raw token stream the lexer will deliver
    lexPos,           \* number of tokens read from the lexer so far
    m_tokensAhead,    \* lookahead queue
    yylval,           \* the shared current-token value
    m_tokenLastBison, \* token last sent to bison
    m_afterColonColon,
    nextId,           \* symp()->nextId(): pending scoped-lookup root is set
    usesStdPackage,   \* v3Global.usesStdPackage()
    unitImports,      \* number of AstPackageImport spliced into $unit
    warned,           \* static int warned of tokenPipelineSym
    pkgNoDecl,        \* number of PKGNODECL warnings emitted
    pedantic,         \* v3Global.opt.pedantic()
    bboxUnsup,        \* v3Global.opt.bboxUnsup()
    stdPackagep,      \* v3Global.rootp()->stdPackagep() is non-null
    symKinds,         \* the answers the symbol tables of this run can give
    run,              \* the tokenToBison call in progress, executed step-wise
    lexFileline,      \* the current FileLine of the lexer
    m_lexLintState,   \* stack of FileLines saved by lint_save
    lintErrors,       \* number of "lint_restore without matching save" errors
    heap,             \* the FileLine objects allocated so far, by address
    cur,              \* lexFileline() as an address into heap
    m_ppBuffers,      \* preprocessor text waiting for the lexer
    pushed,           \* all text pushed so far, in push order (history)
    lexed,            \* all bytes ppInputToLex has returned so far (history)
    last              \* record of the last operation performed (history)

vars == <<raw, lexPos, m_tokensAhead, yylval, m_tokenLastBison,
          m_afterColonColon, nextId, usesStdPackage, unitImports, warned,
          pkgNoDecl, pedantic, bboxUnsup, stdPackagep, symKinds, run, lexFileline,
          m_lexLintState, lintErrors, heap, cur, m_ppBuffers, pushed, lexed,
          last>>

optVars == <<pedantic, bboxUnsup, stdPackagep, symKinds>>
ppVars == <<m_ppBuffers, pushed, lexed>>
locVars == <<lexFileline, m_lexLintState, lintErrors, heap, cur, ppVars>>
symVars == <<m_afterColonColon, nextId, usesStdPackage, unitImports, warned,
             pkgNoDecl>>

\* a FileLine: filename, line number, content-line counter, the warning
\* codes switched off, and the FileLine it was entered from: parent is the
\* empty sequence or holds that one FileLine
NoParent == <<>>
FileNames == {"top", "A"}
WarnCodes == {"W", "V"}
\* pending warning-ignore ranges of the run: <<filename, code>>
PendingIgnores == {<<"A", "W">>}

\* the FileLine of parseFile: the top-level file, newContent()
TopFileLine ==
    [filename |-> "top", lineno |-> 1, contentLineno |-> 1, warnOff |-> {},
     parent |-> NoParent]

\* the same FileLine as an object: the parent is an address, 0 for none
TopObject ==
    [filename |-> "top", lineno |-> 1, contentLineno |-> 1, warnOff |-> {},
     parent |-> 0]

\* the token value: kind, text, source location (the position in the raw
\* stream) and the symbol-table answer attached by tokenPipelineSym
NoTok == [token |-> "none", strp |-> "", fl |-> 0, scp |-> "none"]

\* the lexer/queue part of the state that the scanners thread through
Lex == [ahead |-> m_tokensAhead, lexPos |-> lexPos, yylval |-> yylval]

\* all sequences over S of length at most n
RECURSIVE SeqsUpTo(_, _)
SeqsUpTo(S, n) ==
    IF n = 0 THEN {<<>>}
    ELSE LET shorter == SeqsUpTo(S, n - 1)
         IN shorter \cup {Append(s, x) : s \in {t \in shorter : Len(t) = n - 1}, x \in S}

IsPrefix(s, t) ==
    /\ Len(s) <= Len(t)
    /\ \A i \in 1..Len(s) : s[i] = t[i]

\* ------------------------------------------------------------------------
\* LookaheadQueue
\* ------------------------------------------------------------------------
\* the n-th token the raw scanner delivers: the n-th of the stream, the
\* end-of-input sentinel once the stream is exhausted
LexTok(n) ==
    IF n <= Len(raw)
    THEN [token |-> raw[n].token, strp |-> raw[n].strp, fl |-> n, scp |-> "none"]
    ELSE [token |-> tEOF, strp |-> "", fl |-> n, scp |-> "none"]

\* the raw scanner: reads the next token into yylval
yylexReadTok(st) ==
    [st EXCEPT !.yylval = LexTok(st.lexPos + 1), !.lexPos = st.lexPos + 1]

\* m_tokensAhead.push_back(yylval)
PushBack(st) == [st EXCEPT !.ahead = Append(@, st.yylval)]

tokenPull(st) == PushBack(yylexReadTok(st))

\* mutant of tokenPeekp: do ... while, which pulls even when the position is
\* already queued
RECURSIVE PullWhileShort(_, _)
PullWhileShort(st, depth) ==
    IF Len(st.ahead) <= depth THEN PullWhileShort(tokenPull(st), depth) ELSE st

tokenPeekpDoWhile(st, depth) == PullWhileShort(tokenPull(st), depth)

RECURSIVE tokenPeekp(_, _)
tokenPeekp(st, depth) ==
    IF Len(st.ahead) <= depth THEN tokenPeekp(tokenPull(st), depth) ELSE st

\* ------------------------------------------------------------------------
\* StructuralScanners.  Every loop is written as its body: an operator from
\* the loop's variables to the loop's variables after one iteration, with
\* pc = "ret" when the function returns (ret is then the value returned).
\* An operator named ...At takes the state tokenPeekp returned.
\* ------------------------------------------------------------------------
Loop(pc, st, depth, cnt, ret) ==
    [pc |-> pc, st |-> st, depth |-> depth, cnt |-> cnt, ret |-> ret]

\* mutant of BracketWhileAt: an if instead of the while, so that only the
\* first group is scanned
BracketIfAt(s1, c, inDepth) ==
    IF c.depth = inDepth /\ s1.ahead[c.depth + 1].token = "["
    THEN Loop("do", s1, c.depth, c.cnt, 0)
    ELSE Loop("ret", s1, c.depth, c.cnt, c.depth)

\* tokenPipeScanBracket: the test of the outer while
BracketWhileAt(s1, c, inDepth) ==
    IF s1.ahead[c.depth + 1].token = "["
    THEN Loop("do", s1, c.depth, c.cnt, 0)
    ELSE Loop("ret", s1, c.depth, c.cnt, c.depth)

BracketWhile(c, inDepth) == BracketWhileAt(tokenPeekp(c.st, c.depth), c, inDepth)

\* tokenPipeScanBracket: one iteration of the inner do ... while (bra)
BracketDoAt(s1, c, inDepth) ==
    LET tok == s1.ahead[c.depth + 1].token
        bra == c.cnt
    IN IF tok = tEOF THEN Loop("ret", s1, c.depth, bra, inDepth)
       ELSE IF tok = "["
            THEN Loop("do", s1, c.depth + 1, bra + 1, 0)
       ELSE IF bra # 0 /\ tok = "]"
            THEN Loop(IF bra - 1 # 0 THEN "do" ELSE "while", s1, c.depth + 1, bra - 1, 0)
       ELSE IF bra # 0
            THEN Loop("do", s1, c.depth + 1, bra, 0)
       ELSE Loop("while", s1, c.depth, bra, 0)

BracketDo(c, inDepth) == BracketDoAt(tokenPeekp(c.st, c.depth), c, inDepth)

BracketStep(c, inDepth) ==
    IF c.pc = "do" THEN BracketDo(c, inDepth) ELSE BracketWhile(c, inDepth)

RECURSIVE BracketRun(_, _)
BracketRun(c, inDepth) ==
    IF c.pc = "ret" THEN c ELSE BracketRun(BracketStep(c, inDepth), inDepth)

BracketEnter(st, inDepth) == Loop("while", st, inDepth, 0, 0)

tokenPipeScanBracket(st, inDepth) == BracketRun(BracketEnter(st, inDepth), inDepth)

\* mutant of ParamEnterAt2: the short form is accepted whatever forCell
ParamEnterAt2AnyForm(s2, inDepth, forCell) ==
    LET depth == inDepth + 1
        ntoken == s2.ahead[depth + 1].token
    IN IF ntoken # "("
       THEN IF \/ ntoken = "yaINTNUM" \/ ntoken = "yaFLOATNUM"
               \/ ntoken = "yaTIMENUM" \/ ntoken = "yaID__LEX"
            THEN Loop("ret", s2, depth + 1, 0, depth + 1)
            ELSE Loop("ret", s2, depth, 0, inDepth)
       ELSE Loop("loop", s2, depth + 1, 1, 0)

\* tokenPipeScanParam: after the `#`, the token that follows it
ParamEnterAt2(s2, inDepth, forCell) ==
    LET depth == inDepth + 1
        ntoken == s2.ahead[depth + 1].token
    IN IF ntoken # "("
       THEN IF ~forCell THEN Loop("ret", s2, depth, 0, inDepth)
            ELSE IF \/ ntoken = "yaINTNUM" \/ ntoken = "yaFLOATNUM"
                    \/ ntoken = "yaTIMENUM" \/ ntoken = "yaID__LEX"
                 THEN Loop("ret", s2, depth + 1, 0, depth + 1)
                 ELSE Loop("ret", s2, depth, 0, inDepth)
       ELSE Loop("loop", s2, depth + 1, 1, 0)

\* tokenPipeScanParam: the token at inDepth
ParamEnterAt(s1, inDepth, forCell) ==
    IF s1.ahead[inDepth + 1].token # "#" THEN Loop("ret", s1, inDepth, 0, inDepth)
    ELSE ParamEnterAt2(tokenPeekp(s1, inDepth + 1), inDepth, forCell)

\* tokenPipeScanParam: the code before the loop
ParamEnter(st, inDepth, forCell) ==
    ParamEnterAt(tokenPeekp(st, inDepth), inDepth, forCell)

\* mutant of ParamStepAt: the end of input is not tested
ParamStepNoEofAt(s1, c, inDepth) ==
    LET tok == s1.ahead[c.depth + 1].token
        parens == c.cnt
    IN IF tok = "(" THEN Loop("loop", s1, c.depth + 1, parens + 1, 0)
       ELSE IF tok = ")"
            THEN IF parens - 1 = 0
                 THEN Loop("ret", s1, c.depth + 1, 0, c.depth + 1)
                 ELSE Loop("loop", s1, c.depth + 1, parens - 1, 0)
       ELSE Loop("loop", s1, c.depth + 1, parens, 0)

\* mutant of ParamStepAt: the first `)` ends the group, nesting not counted
ParamStepFirstCloseAt(s1, c, inDepth) ==
    LET tok == s1.ahead[c.depth + 1].token
        parens == c.cnt
    IN IF tok = tEOF THEN Loop("ret", s1, c.depth, parens, inDepth)
       ELSE IF tok = ")" THEN Loop("ret", s1, c.depth + 1, 0, c.depth + 1)
       ELSE Loop("loop", s1, c.depth + 1, parens, 0)

\* tokenPipeScanParam: one iteration of while (true)
ParamStepAt(s1, c, inDepth) ==
    LET tok == s1.ahead[c.depth + 1].token
        parens == c.cnt
    IN IF tok = tEOF THEN Loop("ret", s1, c.depth, parens, inDepth)
       ELSE IF tok = "(" THEN Loop("loop", s1, c.depth + 1, parens + 1, 0)
       ELSE IF tok = ")"
            THEN IF parens - 1 = 0
                 THEN Loop("ret", s1, c.depth + 1, 0, c.depth + 1)
                 ELSE Loop("loop", s1, c.depth + 1, parens - 1, 0)
       ELSE Loop("loop", s1, c.depth + 1, parens, 0)

ParamStep(c, inDepth) == ParamStepAt(tokenPeekp(c.st, c.depth), c, inDepth)

RECURSIVE ParamRun(_, _)
ParamRun(c, inDepth) ==
    IF c.pc = "ret" THEN c ELSE ParamRun(ParamStep(c, inDepth), inDepth)

tokenPipeScanParam(st, inDepth, forCell) ==
    ParamRun(ParamEnter(st, inDepth, forCell), inDepth)

\* tokenPipeScanTypeEq: the code before the loop
TypeEqEnterAt(s1, depth) ==
    IF s1.ahead[depth + 1].token # "(" THEN Loop("ret", s1, depth, 0, depth)
    ELSE Loop("loop", s1, depth + 1, 1, 0)

TypeEqEnter(st, depth) == TypeEqEnterAt(tokenPeekp(st, depth), depth)

\* mutant of TypeEqStepAt: a nested '(' is not counted
TypeEqStepFlatAt(s1, c) ==
    LET tok == s1.ahead[c.depth + 1].token
        parens == c.cnt
    IN IF tok = tEOF THEN Loop("ret", s1, c.depth, parens, c.depth)
       ELSE IF tok = ")"
            THEN IF parens - 1 = 0
                 THEN Loop("ret", s1, c.depth + 1, 0, c.depth + 1)
                 ELSE Loop("loop", s1, c.depth + 1, parens - 1, 0)
       ELSE Loop("loop", s1, c.depth + 1, parens, 0)

\* tokenPipeScanTypeEq: one iteration of while (true)
TypeEqStepAt(s1, c) ==
    LET tok == s1.ahead[c.depth + 1].token
        parens == c.cnt
    IN IF tok = tEOF THEN Loop("ret", s1, c.depth, parens, c.depth)
       ELSE IF tok = "(" THEN Loop("loop", s1, c.depth + 1, parens + 1, 0)
       ELSE IF tok = ")"
            THEN IF parens - 1 = 0
                 THEN Loop("ret", s1, c.depth + 1, 0, c.depth + 1)
                 ELSE Loop("loop", s1, c.depth + 1, parens - 1, 0)
       ELSE Loop("loop", s1, c.depth + 1, parens, 0)

TypeEqStep(c) == TypeEqStepAt(tokenPeekp(c.st, c.depth), c)

RECURSIVE TypeEqRun(_)
TypeEqRun(c) == IF c.pc = "ret" THEN c ELSE TypeEqRun(TypeEqStep(c))

tokenPipeScanTypeEq(st, depth) == TypeEqRun(TypeEqEnter(st, depth))

\* tokenPipeScanIdCell: the test for '(' after the brackets
IdCellParenAt(s1, depth, depthIn) ==
    IF s1.ahead[depth + 1].token # "(" THEN Loop("ret", s1, depth, 0, depthIn)
    ELSE Loop("ret", s1, depth, 0, depth)

\* tokenPipeScanIdCell: the code after tokenPipeScanBracket returned r
IdCellAfterBracket(r, depthIn) ==
    IdCellParenAt(tokenPeekp(r.st, r.ret), r.ret, depthIn)

\* tokenPipeScanIdCell: the test for the instance name, then the brackets
IdCellNameAt(s1, depth) ==
    IF s1.ahead[depth + 1].token # "yaID__LEX"
    THEN Loop("ret", s1, depth, 0, 0)
    ELSE BracketEnter(s1, depth + 1)

\* tokenPipeScanIdCell: the code after tokenPipeScanParam returned r; pc is
\* "ret" on a miss and otherwise the entry of tokenPipeScanBracket
IdCellAfterParam(r) == IdCellNameAt(tokenPeekp(r.st, r.ret), r.ret)

\* tokenPipeScanIdCell: a is what IdCellAfterParam returned
IdCellBrackets(a, depthIn) ==
    IF a.pc = "ret" THEN Loop("ret", a.st, a.depth, 0, depthIn)
    ELSE IdCellAfterBracket(BracketRun(a, a.depth), depthIn)

tokenPipeScanIdCell(st, depthIn) ==
    IdCellBrackets(IdCellAfterParam(tokenPipeScanParam(st, depthIn, TRUE)), depthIn)

\* mutant of isStrengthToken: the generic strength token is left out
isStrengthKeyword(tok) ==
    \/ tok = "ySUPPLY0" \/ tok = "ySUPPLY1"
    \/ tok = "ySTRONG0" \/ tok = "ySTRONG1" \/ tok = "yPULL0" \/ tok = "yPULL1"
    \/ tok = "yWEAK0" \/ tok = "yWEAK1" \/ tok = "yHIGHZ0" \/ tok = "yHIGHZ1"

isStrengthToken(tok) ==
    \/ tok = "ygenSTRENGTH" \/ tok = "ySUPPLY0" \/ tok = "ySUPPLY1"
    \/ tok = "ySTRONG0" \/ tok = "ySTRONG1" \/ tok = "yPULL0" \/ tok = "yPULL1"
    \/ tok = "yWEAK0" \/ tok = "yWEAK1" \/ tok = "yHIGHZ0" \/ tok = "yHIGHZ1"

\* ------------------------------------------------------------------------
\* TokenReclassifier
\* ------------------------------------------------------------------------
Ret(st, token) == [st |-> st, token |-> token]

\* mutant of Restored: yylval stays what the last pull left in it
RestoredNot(st, saved) == st

\* VL_RESTORER(yylval): yylval is put back to the value saved
Restored(st, saved) == [st EXCEPT !.yylval = saved]

\* tokenPipelineId: is `::` at the position tokenPipeScanParam returned
IdColonAt(s2, depth, saved, token) ==
    Ret(Restored(s2, saved),
        IF s2.ahead[depth + 1].token = "yP_COLONCOLON" THEN "yaID__CC" ELSE token)

\* tokenPipelineId: the code after tokenPipeScanParam(0, false) returned par
IdAfterParam(par, saved, token) ==
    IdColonAt(tokenPeekp(par.st, par.ret), par.ret, saved, token)

\* tokenPipelineId: if (nexttok == '#') ... return token
IdParam(s1, nexttok, saved, token) ==
    IF nexttok = "#" THEN IdAfterParam(tokenPipeScanParam(s1, 0, FALSE), saved, token)
    ELSE Ret(Restored(s1, saved), token)

\* tokenPipelineId: the code after tokenPipeScanIdCell(0) returned cell
IdAfterCell(cell, nexttok, saved, token) ==
    IF cell.ret # 0 THEN Ret(Restored(cell.st, saved), "yaID__aCELL")
    ELSE IdParam(cell.st, nexttok, saved, token)

\* mutant of IdAt: the cell shape is tested whatever the token before was
IdAtAnyLast(s0, token, lastTok) ==
    IF s0.ahead[1].token = "yP_COLONCOLON" THEN Ret(s0, "yaID__CC")
    ELSE IdAfterCell(tokenPipeScanIdCell(s0, 0), s0.ahead[1].token, s0.yylval, token)

\* tokenPipelineId: s0 is the state after tokenPeekp(0), lastTok is
\* m_tokenLastBison.token
IdAt(s0, token, lastTok) ==
    IF s0.ahead[1].token = "yP_COLONCOLON" THEN Ret(s0, "yaID__CC")
    ELSE IF lastTok # "@" /\ lastTok # "#" /\ lastTok # "."
         THEN IdAfterCell(tokenPipeScanIdCell(s0, 0), s0.ahead[1].token, s0.yylval, token)
    ELSE IdParam(s0, s0.ahead[1].token, s0.yylval, token)

tokenPipelineId(st, token, lastTok) == IdAt(tokenPeekp(st, 0), token, lastTok)

\* the yTYPE__LEX branch of tokenPipeline: the token at the position
\* tokenPipeScanTypeEq returned
TypePostAt(s1, depth, saved) ==
    LET postToken == s1.ahead[depth + 1].token
    IN Ret(Restored(s1, saved),
           IF \/ postToken = "yP_EQUAL" \/ postToken = "yP_NOTEQUAL"
              \/ postToken = "yP_CASEEQUAL" \/ postToken = "yP_CASENOTEQUAL"
           THEN "yTYPE__EQ" ELSE "yTYPE__ETC")

\* mutant of TypeAfterScan: the token one past the position returned is read
TypeAfterScanNext(r, saved) ==
    TypePostAt(tokenPeekp(r.st, r.ret + 1), r.ret + 1, saved)

\* tokenPipeline, yTYPE__LEX: the token at the position the scan returned
TypeAfterScan(r, saved) == TypePostAt(tokenPeekp(r.st, r.ret), r.ret, saved)

\* the yTYPE__LEX branch of tokenPipeline
TypeRule(st) == TypeAfterScan(tokenPipeScanTypeEq(st, 0), st.yylval)

\* mutant of GlobalRule: the mode is consulted first
GlobalRulePedanticFirst(st, nexttok) ==
    IF pedantic THEN Ret(st, "yGLOBAL__ETC")
    ELSE IF nexttok = "yCLOCKING" THEN Ret(st, "yGLOBAL__CLOCKING")
    ELSE Ret([st EXCEPT !.yylval.strp = "global"], "yaID__LEX")

\* the yGLOBAL__LEX branch of tokenPipeline
GlobalRule(st, nexttok) ==
    IF nexttok = "yCLOCKING" THEN Ret(st, "yGLOBAL__CLOCKING")
    ELSE IF pedantic THEN Ret(st, "yGLOBAL__ETC")
    ELSE Ret([st EXCEPT !.yylval.strp = "global"], "yaID__LEX")

\* the '(' branch of tokenPipeline
ParenRule(st, nexttok) ==
    IF isStrengthToken(nexttok) THEN Ret(st, "yP_PAR__STRENGTH") ELSE Ret(st, "(")

\* the one-token rules of tokenPipeline
\* mutant of KeywordRule: an identifier after `virtual` is not looked at
KeywordRuleNoAnyID(token, nexttok) ==
    CASE token = ":" ->
            IF nexttok = "yBEGIN" THEN "yP_COLON__BEGIN"
            ELSE IF nexttok = "yFORK" THEN "yP_COLON__FORK" ELSE token
      [] token = "yCONST__LEX" ->
            IF nexttok = "yREF" THEN "yCONST__REF" ELSE "yCONST__ETC"
      [] token = "yLOCAL__LEX" ->
            IF nexttok = "yP_COLONCOLON" THEN "yLOCAL__COLONCOLON" ELSE "yLOCAL__ETC"
      [] token = "yNEW__LEX" ->
            IF nexttok = "(" THEN "yNEW__PAREN" ELSE "yNEW__ETC"
      [] token = "ySTATIC__LEX" ->
            IF nexttok = "yCONSTRAINT" THEN "ySTATIC__CONSTRAINT" ELSE "ySTATIC__ETC"
      [] token = "yVIRTUAL__LEX" ->
            IF nexttok = "yCLASS" THEN "yVIRTUAL__CLASS"
            ELSE IF nexttok = "yINTERFACE" THEN "yVIRTUAL__INTERFACE"
            ELSE "yVIRTUAL__ETC"
      [] token = "yWITH__LEX" ->
            IF nexttok = "(" THEN "yWITH__PAREN"
            ELSE IF nexttok = "[" THEN "yWITH__BRA"
            ELSE IF nexttok = "{" THEN "yWITH__CUR"
            ELSE "yWITH__ETC"
      [] OTHER -> token

KeywordRule(token, nexttok) ==
    CASE token = ":" ->
            IF nexttok = "yBEGIN" THEN "yP_COLON__BEGIN"
            ELSE IF nexttok = "yFORK" THEN "yP_COLON__FORK" ELSE token
      [] token = "yCONST__LEX" ->
            IF nexttok = "yREF" THEN "yCONST__REF" ELSE "yCONST__ETC"
      [] token = "yLOCAL__LEX" ->
            IF nexttok = "yP_COLONCOLON" THEN "yLOCAL__COLONCOLON" ELSE "yLOCAL__ETC"
      [] token = "yNEW__LEX" ->
            IF nexttok = "(" THEN "yNEW__PAREN" ELSE "yNEW__ETC"
      [] token = "ySTATIC__LEX" ->
            IF nexttok = "yCONSTRAINT" THEN "ySTATIC__CONSTRAINT" ELSE "ySTATIC__ETC"
      [] token = "yVIRTUAL__LEX" ->
            IF nexttok = "yCLASS" THEN "yVIRTUAL__CLASS"
            ELSE IF nexttok = "yINTERFACE" THEN "yVIRTUAL__INTERFACE"
            ELSE IF nexttok = "yaID__ETC" \/ nexttok = "yaID__LEX" THEN "yVIRTUAL__anyID"
            ELSE "yVIRTUAL__ETC"
      [] token = "yWITH__LEX" ->
            IF nexttok = "(" THEN "yWITH__PAREN"
            ELSE IF nexttok = "[" THEN "yWITH__BRA"
            ELSE IF nexttok = "{" THEN "yWITH__CUR"
            ELSE "yWITH__ETC"
      [] OTHER -> token

\* mutant of ReadAheadKinds: a kind with a rule is missing from the list
ReadAheadKindsNoWith ==
    {"(", ":", "yCONST__LEX", "yGLOBAL__LEX", "yLOCAL__LEX", "yNEW__LEX",
     "ySTATIC__LEX", "yTYPE__LEX", "yVIRTUAL__LEX", "yaID__LEX"}

\* kinds for which tokenPipeline reads another token
ReadAheadKinds ==
    {"(", ":", "yCONST__LEX", "yGLOBAL__LEX", "yLOCAL__LEX", "yNEW__LEX",
     "ySTATIC__LEX", "yTYPE__LEX", "yVIRTUAL__LEX", "yWITH__LEX", "yaID__LEX"}

\* mutant of PopFront: the back of the queue is taken
PopBack(st) ==
    [st EXCEPT !.yylval = st.ahead[Len(st.ahead)],
               !.ahead = SubSeq(st.ahead, 1, Len(st.ahead) - 1)]

\* yylval = m_tokensAhead.front(); m_tokensAhead.pop_front()
PopFront(st) == [st EXCEPT !.yylval = st.ahead[1], !.ahead = Tail(st.ahead)]

\* tokenPipeline: take the front of the queue
PipelineFront(st) == PopFront(IF st.ahead = <<>> THEN tokenPull(st) ELSE st)

\* yylval.token = token; effectively returns yylval
SetToken(r) == [r.st EXCEPT !.yylval.token = r.token]

\* tokenPipeline: the munging of the current token; s3 is the state after
\* tokenPeekp(0) and curValue the yylval remembered before it
PipelineAt(s3, curValue, lastTok) ==
    LET token == curValue.token
        nexttok == s3.ahead[1].token
        s4 == Restored(s3, curValue)
    IN IF token = "(" THEN ParenRule(s4, nexttok)
       ELSE IF token = "yGLOBAL__LEX" THEN GlobalRule(s4, nexttok)
       ELSE IF token = "yTYPE__LEX" THEN TypeRule(s4)
       ELSE IF token = "yaID__LEX" THEN tokenPipelineId(s4, token, lastTok)
       ELSE Ret(s4, KeywordRule(token, nexttok))

\* tokenPipeline: the code after the front was taken
PipelineMunge(s2, lastTok) ==
    IF s2.yylval.token \notin ReadAheadKinds THEN s2
    ELSE SetToken(PipelineAt(tokenPeekp(s2, 0), s2.yylval, lastTok))

\* tokenPipeline: the result is the yylval of the state returned
tokenPipeline(st, lastTok) == PipelineMunge(PipelineFront(st), lastTok)

\* ------------------------------------------------------------------------
\* SymbolAwareClassifier
\* ------------------------------------------------------------------------
\* mutant of FoundKind: a package counts as a type
FoundKindPackageType(scp) ==
    IF scp = "Typedef" THEN "yaID__aTYPE"
    ELSE IF scp = "TypedefFwd" THEN "yaID__aTYPE"
    ELSE IF scp = "Class" THEN "yaID__aTYPE"
    ELSE IF scp = "Package" THEN "yaID__aTYPE"
    ELSE "yaID__ETC"

\* the kind of a found yaID__LEX
FoundKind(scp) ==
    IF scp = "Typedef" THEN "yaID__aTYPE"
    ELSE IF scp = "TypedefFwd" THEN "yaID__aTYPE"
    ELSE IF scp = "Class" THEN "yaID__aTYPE"
    ELSE IF scp = "Package" THEN "yaID__ETC"
    ELSE "yaID__ETC"

\* mutant of StdFallback: m_afterColonColon is not consulted
StdFallbackAnywhere(look, stdLook, afterCC, used) ==
    LET tried == look = "none"
        foundp == IF tried /\ stdPackagep THEN stdLook ELSE look
    IN [foundp |-> foundp, tried |-> tried,
        splice |-> tried /\ foundp # "none" /\ ~used,
        viaStd |-> tried /\ foundp # "none"]

\* the standard-package fallback of tokenPipelineSym: look is the answer of
\* the scoped or fallback lookup, stdLook what the standard package holds for
\* the name, used what v3Global.usesStdPackage() says
StdFallback(look, stdLook, afterCC, used) ==
    LET tried == look = "none" /\ ~afterCC
        foundp == IF tried /\ stdPackagep THEN stdLook ELSE look
    IN [foundp |-> foundp, tried |-> tried,
        splice |-> tried /\ foundp # "none" /\ ~used,
        viaStd |-> tried /\ foundp # "none"]

\* mutant of FirstWarning: the counter is not consulted
EveryWarning(w) == w >= 0

\* if (!warned++): w is the value of the static counter before the test
FirstWarning(w) == w = 0

\* mutant of ScopedLookup: the root stays set after the flat lookup
ScopedLookupKeepsRoot(pending) == [flat |-> pending, nextId |-> pending]

\* tokenPipelineSym: with the root symp()->nextId() set the lookup is
\* findIdFlat under it and the root is cleared, else findIdFallback
ScopedLookup(pending) == [flat |-> pending, nextId |-> FALSE]

\* mutant of StdNamed: the kind of the identifier is not looked at
StdNamedAnyKind(token, foundp, afterCC, strp) ==
    foundp # "none" /\ ~afterCC /\ strp = "std"

\* tokenPipelineSym, found and not yaID__LEX:
\* else if (!m_afterColonColon && *(yylval.strp) == "std")
StdNamed(token, foundp, afterCC, strp) ==
    foundp # "none" /\ token # "yaID__LEX" /\ ~afterCC /\ strp = "std"

\* tokenPipelineSym for an identifier: fb is what StdFallback returned
SymId(y, fb) ==
    LET token == y.token
        foundp == fb.foundp
        stdName == StdNamed(token, foundp, m_afterColonColon, y.strp)
        warnBranch == foundp = "none" /\ token = "yaID__CC" /\ ~bboxUnsup
        newtoken == IF foundp # "none"
                    THEN IF token = "yaID__LEX" THEN FoundKind(foundp) ELSE token
                    ELSE IF token = "yaID__LEX" THEN "yaID__ETC" ELSE token
    IN [yylval |-> [y EXCEPT !.token = newtoken, !.scp = foundp],
        afterCC |-> newtoken = "yP_COLONCOLON",
        nextId |-> ScopedLookup(nextId).nextId,
        used |-> usesStdPackage \/ fb.splice \/ stdName,
        imports |-> IF fb.splice THEN unitImports + 1 ELSE unitImports,
        warned |-> IF warnBranch THEN warned + 1 ELSE warned,
        pkgNoDecl |-> IF warnBranch /\ FirstWarning(warned) THEN pkgNoDecl + 1
                      ELSE pkgNoDecl,
        viaStd |-> fb.viaStd, stdTried |-> fb.tried,
        flat |-> ScopedLookup(nextId).flat]

\* tokenPipelineSym: y is the yylval tokenPipeline returned; look and stdLook
\* are the symbol table's answers.  Returns the new values of the members it
\* writes.
tokenPipelineSym(y, look, stdLook) ==
    IF y.token = "yaID__LEX" \/ y.token = "yaID__CC"
    THEN SymId(y, StdFallback(look, stdLook, m_afterColonColon, usesStdPackage))
    ELSE [yylval |-> y, afterCC |-> y.token = "yP_COLONCOLON",
          nextId |-> nextId, used |-> usesStdPackage, imports |-> unitImports,
          warned |-> warned, pkgNoDecl |-> pkgNoDecl, viaStd |-> FALSE,
          stdTried |-> FALSE, flat |-> FALSE]

\* ------------------------------------------------------------------------
\* Operations
\* ------------------------------------------------------------------------
\* the record kept of the last operation: its name, its arguments (d,
\* forCell), the position it returned (ret), its nesting counter at the
\* return (cnt), the token it returned (tok, for tokenPeekp) and, for tokenToBison, the queue front it consumed
\* (front), the kind of m_tokenLastBison before the call (prev), what
\* tokenPipeline returned (pipe) and how the symbol lookup went
NoOp ==
    [op |-> "none", d |-> 0, forCell |-> FALSE, ret |-> 0, cnt |-> 0,
     tok |-> NoTok, front |-> NoTok, prev |-> "none", pipe |-> NoTok,
     viaStd |-> FALSE, stdTried |-> FALSE, flat |-> FALSE,
     name |-> "", line |-> 0]

SetLex(st) ==
    /\ m_tokensAhead' = st.ahead
    /\ lexPos' = st.lexPos
    /\ yylval' = st.yylval

\* bison has been handed the end-of-input sentinel and stops calling yylex
ParseEnded == m_tokenLastBison.token = tEOF

\* the answers the symbol table can give tokenPipelineSym for a token of
\* this kind (it is asked for identifiers only)
LooksFor(token) ==
    IF token = "yaID__LEX" \/ token = "yaID__CC" THEN symKinds ELSE {"none"}

\* the answers the standard package can give after the answer look (it is
\* asked only when look found nothing)
StdLooksFor(token, look) ==
    IF (token = "yaID__LEX" \/ token = "yaID__CC") /\ look = "none"
    THEN symKinds ELSE {"none"}

\* the call in progress: where it is (pc), the variables of the scanner
\* loop it is in (loop is the loop's own position) and the locals of
\* tokenPipeline and tokenPipelineId that are live across the scan
Idle ==
    [pc |-> "idle", loop |-> "ret", depth |-> 0, cnt |-> 0, ret |-> 0,
     inDepth |-> 0, token |-> "none", saved |-> NoTok, nexttok |-> "none",
     front |-> NoTok]

\* tokenToBison after tokenPipeline returned y: tokenPipelineSym, then
\* m_tokenLastBison = yylval; front is the token tokenPipeline took
Finish(y, front) ==
    \E look \in LooksFor(y.token) :
    \E stdLook \in StdLooksFor(y.token, look) :
    \E r \in {tokenPipelineSym(y, look, stdLook)} :
       /\ yylval' = r.yylval
       /\ m_tokenLastBison' = r.yylval
       /\ m_afterColonColon' = r.afterCC
       /\ nextId' = r.nextId
       /\ usesStdPackage' = r.used
       /\ unitImports' = r.imports
       /\ warned' = r.warned
       /\ pkgNoDecl' = r.pkgNoDecl
       /\ last' = [NoOp EXCEPT !.op = "tokenToBison",
                               !.front = front,
                               !.prev = m_tokenLastBison.token,
                               !.pipe = y,
                               !.viaStd = r.viaStd, !.stdTried = r.stdTried,
                               !.flat = r.flat]

\* tokenToBison: one finalized terminal for bison
TokenToBison ==
    /\ ~ParseEnded
    /\ \E p \in {tokenPipeline(Lex, m_tokenLastBison.token)} :
          /\ m_tokensAhead' = p.ahead
          /\ lexPos' = p.lexPos
          /\ Finish(p.yylval, PipelineFront(Lex).yylval)
    /\ UNCHANGED <<raw, optVars, run, locVars>>

\* the grammar, having reduced a scope:: prefix, sets the one-shot root
GrammarNextId ==
    /\ ~ParseEnded
    /\ ~nextId
    /\ nextId' = TRUE
    /\ last' = [NoOp EXCEPT !.op = "nextId"]
    /\ UNCHANGED <<raw, lexPos, m_tokensAhead, yylval, m_tokenLastBison,
                   m_afterColonColon, usesStdPackage, unitImports, warned,
                   pkgNoDecl, optVars, run, locVars>>

\* direct calls of the queue and scanner methods
LexFrame == UNCHANGED <<raw, m_tokenLastBison, symVars, optVars, run, locVars>>

CallPull ==
    /\ lexPos <= Len(raw)
    /\ SetLex(tokenPull(Lex))
    /\ last' = [NoOp EXCEPT !.op = "tokenPull"]
    /\ LexFrame

CallPeek ==
    \E d \in 0..MaxPeek :
        \E s1 \in {tokenPeekp(Lex, d)} :
           /\ SetLex(s1)
           /\ last' = [NoOp EXCEPT !.op = "tokenPeekp", !.d = d, !.tok = s1.ahead[d + 1]]
           /\ LexFrame

CallScanBracket ==
    \E d \in 0..MaxPeek :
        \E r \in {tokenPipeScanBracket(Lex, d)} :
           /\ SetLex(r.st)
           /\ last' = [NoOp EXCEPT !.op = "tokenPipeScanBracket", !.d = d,
                                   !.ret = r.ret, !.cnt = r.cnt]
           /\ LexFrame

CallScanParam ==
    \E d \in 0..MaxPeek, forCell \in BOOLEAN :
        \E r \in {tokenPipeScanParam(Lex, d, forCell)} :
           /\ SetLex(r.st)
           /\ last' = [NoOp EXCEPT !.op = "tokenPipeScanParam", !.d = d,
                                   !.forCell = forCell, !.ret = r.ret,
                                   !.cnt = r.cnt]
           /\ LexFrame

CallScanTypeEq ==
    \E d \in 0..MaxPeek :
        \E r \in {tokenPipeScanTypeEq(Lex, d)} :
           /\ SetLex(r.st)
           /\ last' = [NoOp EXCEPT !.op = "tokenPipeScanTypeEq", !.d = d,
                                   !.ret = r.ret, !.cnt = r.cnt]
           /\ LexFrame

CallScanIdCell ==
    \E d \in 0..MaxPeek :
        \E r \in {tokenPipeScanIdCell(Lex, d)} :
           /\ SetLex(r.st)
           /\ last' = [NoOp EXCEPT !.op = "tokenPipeScanIdCell", !.d = d,
                                   !.ret = r.ret, !.cnt = r.cnt]
           /\ LexFrame

\* ------------------------------------------------------------------------
\* tokenToBison executed step by step: one step per iteration of a scanner
\* loop, so that a loop that does not end shows as a call that never returns
\* ------------------------------------------------------------------------
\* the variables of the scanner loop in progress
Frame == Loop(run.loop, Lex, run.depth, run.cnt, run.ret)

\* continue at pc with the scanner loop variables c
Go(pc, c, inDepth, token, saved, nexttok) ==
    /\ SetLex(c.st)
    /\ run' = [run EXCEPT !.pc = pc, !.loop = c.pc, !.depth = c.depth,
                          !.cnt = c.cnt, !.ret = c.ret, !.inDepth = inDepth,
                          !.token = token, !.saved = saved, !.nexttok = nexttok]

\* tokenPipeline returns r: yylval.token = token, on to tokenPipelineSym
GoSym(r) ==
    /\ SetLex(SetToken(r))
    /\ run' = [Idle EXCEPT !.pc = "sym", !.front = run.front]

\* tokenPipelineId: if (nexttok == '#') enter tokenPipeScanParam(0, false)
LiveIdParam(st, nexttok, saved, token) ==
    IF nexttok = "#"
    THEN Go("idParam", ParamEnter(st, 0, FALSE), 0, token, saved, nexttok)
    ELSE GoSym(Ret(Restored(st, saved), token))

\* tokenPipelineId up to its first scanner call
LiveId(s0, token, lastTok) ==
    IF s0.ahead[1].token = "yP_COLONCOLON" THEN GoSym(Ret(s0, "yaID__CC"))
    ELSE IF lastTok # "@" /\ lastTok # "#" /\ lastTok # "."
         THEN Go("cellParam", ParamEnter(s0, 0, TRUE), 0, token, s0.yylval,
                 s0.ahead[1].token)
    ELSE LiveIdParam(s0, s0.ahead[1].token, s0.yylval, token)

\* tokenPipeline after tokenPeekp(0), up to the first scanner call
LivePipelineAt(s3, curValue, lastTok) ==
    LET token == curValue.token
        nexttok == s3.ahead[1].token
        s4 == Restored(s3, curValue)
    IN IF token = "(" THEN GoSym(ParenRule(s4, nexttok))
       ELSE IF token = "yGLOBAL__LEX" THEN GoSym(GlobalRule(s4, nexttok))
       ELSE IF token = "yTYPE__LEX"
            THEN Go("typeEq", TypeEqEnter(s4, 0), 0, token, s4.yylval, nexttok)
       ELSE IF token = "yaID__LEX" THEN LiveId(s4, token, lastTok)
       ELSE GoSym(Ret(s4, KeywordRule(token, nexttok)))

\* tokenPipeline after the front was taken
LivePipelineMunge(s2, lastTok) ==
    IF s2.yylval.token \notin ReadAheadKinds THEN GoSym(Ret(s2, s2.yylval.token))
    ELSE LivePipelineAt(tokenPeekp(s2, 0), s2.yylval, lastTok)

LiveFrame == UNCHANGED <<raw, m_tokenLastBison, symVars, optVars, locVars, last>>

\* bison calls tokenToBison: tokenPipeline takes the front of the queue
LiveCall ==
    /\ ~ParseEnded
    /\ run.pc = "idle"
    /\ \E s2 \in {PipelineFront(Lex)} :
          /\ SetLex(s2)
          /\ run' = [Idle EXCEPT !.pc = "munge", !.front = s2.yylval]
    /\ LiveFrame

\* tokenPipeline: the code up to the first scanner loop
LiveMunge ==
    /\ run.pc = "munge"
    /\ LivePipelineMunge(Lex, m_tokenLastBison.token)
    /\ LiveFrame

\* one iteration of the scanner loop in progress
LiveScan ==
    /\ run.pc \in {"cellParam", "cellBracket", "idParam", "typeEq"}
    /\ run.loop # "ret"
    /\ run.depth <= Len(raw) + 1
    /\ \E c \in {CASE run.pc = "cellBracket" -> BracketStep(Frame, run.inDepth)
                   [] run.pc = "typeEq" -> TypeEqStep(Frame)
                   [] OTHER -> ParamStep(Frame, 0)} :
          Go(run.pc, c, run.inDepth, run.token, run.saved, run.nexttok)
    /\ LiveFrame

\* tokenPipeScanIdCell after tokenPipeScanParam returned
LiveCellName(a) ==
    IF a.pc = "ret" THEN LiveIdParam(a.st, run.nexttok, run.saved, run.token)
    ELSE Go("cellBracket", a, a.depth, run.token, run.saved, run.nexttok)

\* tokenPipelineId after tokenPipeScanIdCell returned
LiveCellDone(r) ==
    IF r.ret # 0 THEN GoSym(Ret(Restored(r.st, run.saved), "yaID__aCELL"))
    ELSE LiveIdParam(r.st, run.nexttok, run.saved, run.token)

\* the scanner has returned: the caller's code up to the next scanner loop
LiveScanned ==
    /\ run.pc \in {"cellParam", "cellBracket", "idParam", "typeEq"}
    /\ run.loop = "ret"
    /\ CASE run.pc = "cellParam" -> LiveCellName(IdCellAfterParam(Frame))
         [] run.pc = "cellBracket" -> LiveCellDone(IdCellAfterBracket(Frame, 0))
         [] run.pc = "idParam" -> GoSym(IdAfterParam(Frame, run.saved, run.token))
         [] OTHER -> GoSym(TypeAfterScan(Frame, run.saved))
    /\ LiveFrame

\* tokenPipelineSym, and tokenToBison returns the token
LiveReturn ==
    /\ run.pc = "sym"
    /\ Finish(yylval, run.front)
    /\ run' = Idle
    /\ UNCHANGED <<raw, lexPos, m_tokensAhead, optVars, locVars>>

\* ------------------------------------------------------------------------
\* SourceLocationStack: lexPpline and the lint-state stack
\* ------------------------------------------------------------------------
\* number of FileLines fl was entered through
RECURSIVE Nest(_)
Nest(fl) == IF fl.parent = NoParent THEN 0 ELSE 1 + Nest(fl.parent[1])

\* FileLine::applyIgnores: the pending ignores of the file are switched off
applyIgnores(fl) ==
    [fl EXCEPT !.warnOff = @ \cup {c \in WarnCodes : <<fl.filename, c>> \in PendingIgnores}]

\* lexPpline, enterExit == 1: the new FileLine is a copy of the current one
\* and has a copy of the current one as parent
PplineEnter(fl) == [fl EXCEPT !.parent = <<fl>>]

\* mutant of PplineExit: contentLinenoFrom(prevFl) is left out
PplineExitNoCarry(fl) == IF fl.parent # NoParent THEN fl.parent[1] ELSE fl

\* lexPpline, enterExit == 2: a copy of the parent, if there is one, with the
\* content-line counter of the FileLine left
PplineExit(fl) ==
    IF fl.parent # NoParent
    THEN [fl.parent[1] EXCEPT !.contentLineno = fl.contentLineno]
    ELSE fl

\* mutant of PplineChange: the directive's filename and line are dropped on
\* an exit
PplineChangeKeepOnExit(fl, newFilename, newLineno, enterExit) ==
    IF enterExit # -1 /\ enterExit # 2
    THEN applyIgnores([fl EXCEPT !.filename = newFilename, !.lineno = newLineno])
    ELSE fl

\* lexPpline: if (enterExit != -1), the line / filename change
PplineChange(fl, newFilename, newLineno, enterExit) ==
    IF enterExit # -1
    THEN applyIgnores([fl EXCEPT !.filename = newFilename, !.lineno = newLineno])
    ELSE fl

\* lexPpline on the current FileLine fl, for what lineDirectiveParse read
lexPpline(fl, newFilename, newLineno, enterExit) ==
    PplineChange(IF enterExit = 1 THEN PplineEnter(fl)
                 ELSE IF enterExit = 2 THEN PplineExit(fl)
                 ELSE fl,
                 newFilename, newLineno, enterExit)

TokFrame ==
    UNCHANGED <<raw, lexPos, m_tokensAhead, yylval, m_tokenLastBison, symVars,
                optVars, run, ppVars>>

LocFrame == TokFrame /\ UNCHANGED <<heap, cur>>

\* the lexer meets a `line directive
LexPpline ==
    \E newFilename \in FileNames, newLineno \in 1..MaxLine, enterExit \in {-1, 0, 1, 2} :
        /\ enterExit = 1 => Nest(lexFileline) < MaxNest
        /\ lexFileline' = lexPpline(lexFileline, newFilename, newLineno, enterExit)
        /\ last' = [NoOp EXCEPT !.op = "lexPpline", !.d = enterExit,
                                !.cnt = Nest(lexFileline),
                                !.name = newFilename, !.line = newLineno]
        /\ UNCHANGED <<m_lexLintState, lintErrors>>
        /\ LocFrame

\* the lexer passes a newline: FileLine::linenoInc
LexNewline ==
    /\ lexFileline.lineno < MaxLine
    /\ lexFileline.contentLineno <= MaxLine
    /\ lexFileline' = [lexFileline EXCEPT !.lineno = @ + 1, !.contentLineno = @ + 1]
    /\ last' = [NoOp EXCEPT !.op = "newline"]
    /\ UNCHANGED <<m_lexLintState, lintErrors>>
    /\ LocFrame

\* lexVerilatorCmtLint with a known message code: lint_off / lint_on
LexVerilatorCmtLint ==
    \E msg \in WarnCodes, warnOff \in BOOLEAN :
        /\ lexFileline' = [lexFileline EXCEPT
                              !.warnOff = IF warnOff THEN @ \cup {msg} ELSE @ \ {msg}]
        /\ last' = [NoOp EXCEPT !.op = "lexVerilatorCmtLint"]
        /\ UNCHANGED <<m_lexLintState, lintErrors>>
        /\ LocFrame

\* lexVerilatorCmtLintSave(lexFileline()): of the FileLine pushed only the
\* warning state is ever read back, and only that is kept
LexVerilatorCmtLintSave ==
    /\ Len(m_lexLintState) < MaxSaves
    /\ m_lexLintState' = Append(m_lexLintState, lexFileline.warnOff)
    /\ last' = [NoOp EXCEPT !.op = "lexVerilatorCmtLintSave"]
    /\ UNCHANGED <<lexFileline, lintErrors>>
    /\ LocFrame

\* mutant of LintRestored: the oldest saved state is applied
LintRestoredFront(fl, state) == [fl EXCEPT !.warnOff = state[1]]

\* lexVerilatorCmtLintRestore: fl->warnStateFrom(m_lexLintState.back())
LintRestored(fl, state) == [fl EXCEPT !.warnOff = state[Len(state)]]

\* mutant of LintRestoreEmpty: the test for the empty stack excludes nothing
LintRestoreAlwaysEmpty(state) == Len(state) >= 0

\* lexVerilatorCmtLintRestore: if (m_lexLintState.empty())
LintRestoreEmpty(state) == state = <<>>

\* lexVerilatorCmtLintRestore(lexFileline())
LexVerilatorCmtLintRestore ==
    /\ IF LintRestoreEmpty(m_lexLintState)
       THEN /\ lintErrors < MaxLintErrors
            /\ lintErrors' = lintErrors + 1
            /\ UNCHANGED <<lexFileline, m_lexLintState>>
       ELSE /\ lexFileline' = LintRestored(lexFileline, m_lexLintState)
            /\ m_lexLintState' = SubSeq(m_lexLintState, 1, Len(m_lexLintState) - 1)
            /\ UNCHANGED lintErrors
    /\ last' = [NoOp EXCEPT !.op = "lexVerilatorCmtLintRestore",
                            !.cnt = Len(m_lexLintState)]
    /\ LocFrame

\* ------------------------------------------------------------------------
\* lexPpline on FileLine objects: heap is indexed by address, a new FileLine
\* is appended and never moves
\* ------------------------------------------------------------------------
\* the value of the object at address i, its parents followed
RECURSIVE Value(_, _)
Value(h, i) ==
    [filename |-> h[i].filename, lineno |-> h[i].lineno,
     contentLineno |-> h[i].contentLineno, warnOff |-> h[i].warnOff,
     parent |-> IF h[i].parent = 0 THEN NoParent ELSE <<Value(h, h[i].parent)>>]

\* enterExit == 1: prevFl is a copy of the current FileLine, newFl a copy of
\* prevFl with prevFl as parent, and newFl becomes the current one
HeapEnter(h, c) ==
    [heap |-> h \o <<h[c], [h[c] EXCEPT !.parent = Len(h) + 1]>>,
     cur |-> Len(h) + 2]

\* mutant of HeapExit: the parent itself becomes the current FileLine
HeapExitNoCopy(h, c) ==
    IF h[c].parent # 0
    THEN [heap |-> [h EXCEPT ![h[c].parent].contentLineno = h[c].contentLineno],
          cur |-> h[c].parent]
    ELSE [heap |-> h, cur |-> c]

\* enterExit == 2: with a parent, new FileLine{upFl} becomes the current one
\* and takes the content line of prevFl
HeapExit(h, c) ==
    IF h[c].parent # 0
    THEN [heap |-> Append(h, [h[h[c].parent] EXCEPT
                                 !.contentLineno = h[c].contentLineno]),
          cur |-> Len(h) + 1]
    ELSE [heap |-> h, cur |-> c]

\* if (enterExit != -1): filename, lineno and applyIgnores on lexFileline()
HeapChange(hc, newFilename, newLineno, enterExit) ==
    IF enterExit # -1
    THEN [hc EXCEPT !.heap[hc.cur] =
             applyIgnores([@ EXCEPT !.filename = newFilename,
                                    !.lineno = newLineno])]
    ELSE hc

\* lexPpline on the heap h with current FileLine c
HeapPpline(h, c, newFilename, newLineno, enterExit) ==
    HeapChange(IF enterExit = 1 THEN HeapEnter(h, c)
               ELSE IF enterExit = 2 THEN HeapExit(h, c)
               ELSE [heap |-> h, cur |-> c],
               newFilename, newLineno, enterExit)

\* the lexer meets a `line directive; the FileLines are followed as objects
LexPplineObjects ==
    \E newFilename \in FileNames, newLineno \in 1..MaxLine, enterExit \in {-1, 0, 1, 2} :
        \E hc \in {HeapPpline(heap, cur, newFilename, newLineno, enterExit)} :
            /\ Len(hc.heap) <= MaxObjs
            /\ heap' = hc.heap
            /\ cur' = hc.cur
            /\ lexFileline' = lexPpline(lexFileline, newFilename, newLineno, enterExit)
            /\ last' = [NoOp EXCEPT !.op = "lexPpline", !.d = enterExit,
                                    !.cnt = Nest(lexFileline),
                                    !.name = newFilename, !.line = newLineno]
            /\ UNCHANGED <<m_lexLintState, lintErrors>>
            /\ TokFrame

\* the lexer passes a newline: linenoInc on lexFileline()
LexNewlineObjects ==
    /\ heap[cur].lineno < MaxLine
    /\ heap[cur].contentLineno < MaxLine
    /\ heap' = [heap EXCEPT ![cur].lineno = @ + 1, ![cur].contentLineno = @ + 1]
    /\ lexFileline' = [lexFileline EXCEPT !.lineno = @ + 1, !.contentLineno = @ + 1]
    /\ last' = [NoOp EXCEPT !.op = "newline"]
    /\ UNCHANGED <<cur, m_lexLintState, lintErrors>>
    /\ TokFrame

\* lint_off / lint_on on lexFileline()
LexVerilatorCmtLintObjects ==
    \E msg \in {"W"}, warnOff \in BOOLEAN :
        /\ heap' = [heap EXCEPT
                       ![cur].warnOff = IF warnOff THEN @ \cup {msg} ELSE @ \ {msg}]
        /\ lexFileline' = [lexFileline EXCEPT
                              !.warnOff = IF warnOff THEN @ \cup {msg} ELSE @ \ {msg}]
        /\ last' = [NoOp EXCEPT !.op = "lexVerilatorCmtLint"]
        /\ UNCHANGED <<cur, m_lexLintState, lintErrors>>
        /\ TokFrame

\* ------------------------------------------------------------------------
\* Preprocessor text on its way to the lexer; a text is a sequence of bytes
\* ------------------------------------------------------------------------
PpBytes == {"a", "b"}

\* the texts the preprocessor pushes, the empty one included
PpTexts == SeqsUpTo(PpBytes, MaxText)

\* the buffers one after the other
RECURSIVE Flat(_)
Flat(bufs) == IF bufs = <<>> THEN <<>> ELSE Head(bufs) \o Flat(Tail(bufs))

\* mutant of PpTake: the remainder is queued behind the other buffers
PpTakeRemainderBack(r, max_size) ==
    LET front == Head(r.buffers)
        rest == Tail(r.buffers)
        room == max_size - Len(r.buf)
    IN IF Len(front) > room
       THEN [buf |-> r.buf \o SubSeq(front, 1, room),
             buffers |-> Append(rest, SubSeq(front, room + 1, Len(front)))]
       ELSE [buf |-> r.buf \o front, buffers |-> rest]

\* ppInputToLex: one iteration of the while loop; r.buf is buf[0..got)
PpTake(r, max_size) ==
    LET front == Head(r.buffers)
        rest == Tail(r.buffers)
        room == max_size - Len(r.buf)
    IN IF Len(front) > room
       THEN [buf |-> r.buf \o SubSeq(front, 1, room),
             buffers |-> <<SubSeq(front, room + 1, Len(front))>> \o rest]
       ELSE [buf |-> r.buf \o front, buffers |-> rest]

\* ppInputToLex: while (got < max_size && !m_ppBuffers.empty())
RECURSIVE PpLoop(_, _)
PpLoop(r, max_size) ==
    IF Len(r.buf) < max_size /\ r.buffers # <<>>
    THEN PpLoop(PpTake(r, max_size), max_size)
    ELSE r

\* ppInputToLex(buf, max_size) on the buffers bufs: the bytes written to buf
\* and the buffers left; the value returned is the number of bytes
ppInputToLex(bufs, max_size) == PpLoop([buf |-> <<>>, buffers |-> bufs], max_size)

PpFrame ==
    UNCHANGED <<raw, lexPos, m_tokensAhead, yylval, m_tokenLastBison, symVars,
                optVars, run, lexFileline, m_lexLintState, lintErrors, heap, cur>>

\* V3Parse::ppPushText: an empty text is not passed on, any other is queued
PpPushText ==
    \E text \in PpTexts :
        /\ Len(pushed) + Len(text) <= MaxPushed
        /\ m_ppBuffers' = IF text # <<>> THEN Append(m_ppBuffers, text)
                          ELSE m_ppBuffers
        /\ pushed' = pushed \o text
        /\ last' = [NoOp EXCEPT !.op = "ppPushText", !.cnt = Len(text)]
        /\ UNCHANGED lexed
        /\ PpFrame

\* the lexer asks for up to max_size bytes
PpInputToLex ==
    \E max_size \in 0..MaxSize :
        \E r \in {ppInputToLex(m_ppBuffers, max_size)} :
            /\ m_ppBuffers' = r.buffers
            /\ lexed' = lexed \o r.buf
            /\ last' = [NoOp EXCEPT !.op = "ppInputToLex", !.d = max_size,
                                    !.ret = Len(r.buf), !.cnt = Len(m_ppBuffers)]
            /\ UNCHANGED pushed
            /\ PpFrame

\* ------------------------------------------------------------------------
\* Specifications
\* ------------------------------------------------------------------------
\* the state after construction, for a raw stream out of streams
InitWith(streams, peds, bboxes, stds, kinds) ==
    /\ raw \in streams
    /\ lexPos = 0
    /\ m_tokensAhead = <<>>
    /\ yylval = NoTok
    /\ m_tokenLastBison = NoTok
    /\ m_afterColonColon = FALSE
    /\ nextId = FALSE
    /\ usesStdPackage = FALSE
    /\ unitImports = 0
    /\ warned = 0
    /\ pkgNoDecl = 0
    /\ pedantic \in peds
    /\ bboxUnsup \in bboxes
    /\ stdPackagep \in stds
    /\ symKinds = kinds
    /\ run = Idle
    /\ lexFileline = TopFileLine
    /\ m_lexLintState = <<>>
    /\ lintErrors = 0
    /\ heap = <<TopObject>>
    /\ cur = 1
    /\ m_ppBuffers = <<>>
    /\ pushed = <<>>
    /\ lexed = <<>>
    /\ last = NoOp

\* identifiers (one of them named std) and `::`: the symbol-aware classifier
StreamsSym ==
    SeqsUpTo({Id("a"), Id("std"), K("yP_COLONCOLON"), K(";")}, MaxLen)

Init == InitWith(StreamsSym, {FALSE}, BOOLEAN, BOOLEAN, LookupResults)

Next == TokenToBison \/ GrammarNextId

Spec == Init /\ [][Next]_vars

\* brackets, parentheses and `#`: the scanners, called directly
ParamLiterals == {"yaINTNUM", "yaFLOATNUM", "yaTIMENUM"}

StreamsScan ==
    SeqsUpTo({Id("a"), K("["), K("]"), K("(")}, ScanLen)
    \cup SeqsUpTo({Id("a"), K("#"), K("("), K(")")}, ScanLen)
    \cup {<<K("["), Id("a"), K("]"), K("["), Id("b"), K("]"), K("(")>>,
          <<K("["), Id("a"), K("(")>>}
    \cup {<<K("#"), K("("), K("("), Id("a"), K(")"), K(")"), Id("b")>>,
          <<Id("a"), K("#"), K("("), K("("), K(")"), K("(")>>}
    \cup {a \o <<K("#"), K(n)>> \o b :
            a \in {<<>>, <<Id("a")>>}, b \in {<<>>, <<Id("b")>>},
            n \in ParamLiterals \cup {"yaSTRING", "#"}}

InitScan == InitWith(StreamsScan, {FALSE}, {FALSE}, {TRUE}, LookupResults)

NextScan ==
    \/ TokenToBison
    \/ CallPull
    \/ CallPeek
    \/ CallScanBracket
    \/ CallScanParam
    \/ CallScanTypeEq
    \/ CallScanIdCell

SpecScan == InitScan /\ [][NextScan]_vars

\* the reclassifier rules for identifiers, `type` and `(`: every short stream
\* over the tokens the rules look at, and the shapes of a cell instantiation
\* put together from their parts
CellPrefixes == {<<>>, <<K("@")>>, <<K("#")>>, <<K(".")>>, <<K(";")>>}
CellParams ==
    {<<>>, <<K("#"), K("("), K(")")>>,
     <<K("#"), K("("), K("("), Id("p"), K(")"), K(")")>>,
     <<K("#"), K("("), K("("), K(")")>>, <<K("#"), K("yaINTNUM")>>,
     <<K("#"), K("yaFLOATNUM")>>, <<K("#"), K("yaTIMENUM")>>,
     <<K("#"), Id("p")>>, <<K("#"), K(";")>>}
CellNames == {<<>>, <<Id("u")>>, <<K(";")>>}
CellBrackets ==
    {<<>>, <<K("["), K("]")>>, <<K("["), K("["), K("]"), K("]")>>,
     <<K("["), K("]"), K("["), Id("i"), K("]")>>, <<K("["), K("]"), K("[")>>,
     <<K("["), K("(")>>}
CellTails == {<<>>, <<K("(")>>, <<K(";")>>}

CellShapes ==
    {a \o <<Id("m")>> \o b \o c \o d \o e :
        a \in CellPrefixes, b \in CellParams, c \in CellNames,
        d \in CellBrackets, e \in CellTails}

StreamsCell ==
    CellShapes
    \cup SeqsUpTo({Id("a"), K("#"), K("("), K(")"), K("["), K("]"), K("@"),
                   K("yaINTNUM")}, PipeLen)

\* identifiers before `::`, with and without a parameter group in between
StreamsColon ==
    {a \o <<Id("m")>> \o b \o c \o d :
        a \in {<<>>, <<K("@")>>, <<K(";")>>}, b \in CellParams,
        c \in {<<>>, <<K("yP_COLONCOLON")>>},
        d \in {<<>>, <<Id("u")>>, <<Id("u"), K("(")>>}}
    \cup SeqsUpTo({Id("a"), K("#"), K("("), K(")"), K("yP_COLONCOLON")}, PipeLen)

EqOps == {"yP_EQUAL", "yP_NOTEQUAL", "yP_CASEEQUAL", "yP_CASENOTEQUAL"}

StreamsType ==
    SeqsUpTo({K("yTYPE__LEX"), K("("), K(")"), K("yP_EQUAL"), Id("T")}, PipeLen)
    \cup {<<K("yTYPE__LEX"), K("(")>> \o g \o <<K(")"), K(op)>> \o t :
            g \in {<<Id("T")>>, <<K("("), Id("T"), K(")")>>,
                   <<K("("), K(")"), K("("), K(")")>>},
            op \in EqOps \cup {"=", "yP_LTE"},
            t \in {<<>>, <<K("yTYPE__LEX"), K("("), Id("U"), K(")")>>}}
    \cup {<<K("yTYPE__LEX"), K("("), Id("T"), K(")"), Id("x")>>,
          <<K("yTYPE__LEX"), K("("), K("("), Id("T"), K(")"), K("yP_EQUAL")>>}

StrengthKeywords ==
    {"ygenSTRENGTH", "ySUPPLY0", "ySUPPLY1", "ySTRONG0", "ySTRONG1", "yPULL0",
     "yPULL1", "yWEAK0", "yWEAK1", "yHIGHZ0", "yHIGHZ1"}

StreamsParen ==
    {<<K("("), K(k), K(")")>> : k \in StrengthKeywords \cup {"yCLOCKING", "yREF"}}
    \cup {<<K("(")>>, <<K("("), Id("x"), K(")")>>,
          <<K("("), K("("), K("ySUPPLY0"), K(")")>>,
          <<K("ySUPPLY0"), K("("), K("ySUPPLY1")>>}

StreamsGlobal ==
    SeqsUpTo({K("yGLOBAL__LEX"), K("yCLOCKING"), Id("x"), K(";")}, PipeLen)
    \cup {<<K("yGLOBAL__LEX")>> \o t :
            t \in {<<K("yP_COLONCOLON"), Id("x")>>,
                   <<Id("u"), K("("), K(")")>>,
                   <<K("#"), K("("), K(")"), K("yP_COLONCOLON"), Id("x")>>,
                   <<K("#"), K("("), K(")"), Id("u"), K("(")>>}}

\* the kinds of lines 556-630 that look at the next token only
KeywordKinds ==
    {":", "yCONST__LEX", "yLOCAL__LEX", "yNEW__LEX", "ySTATIC__LEX",
     "yVIRTUAL__LEX", "yWITH__LEX"}

\* the tokens those rules test for, and some they do not
KeywordNexts ==
    {"yBEGIN", "yFORK", "yREF", "yP_COLONCOLON", "(", "[", "{", "yCONSTRAINT",
     "yCLASS", "yINTERFACE", "yaID__LEX", "yCLOCKING", ";", ":"}

\* each keyword before each next token, after nothing, `@` or `(`, and
\* alone at the end of the input
StreamsKeyword ==
    {a \o <<K(k)>> \o b :
        a \in {<<>>, <<K("@")>>, <<K("(")>>}, k \in KeywordKinds,
        b \in {<<>>} \cup {<<K(n)>> : n \in KeywordNexts}
                    \cup {<<K(n), K(";")>> : n \in {"yBEGIN", "yREF", "("}}}

InitPipe ==
    \/ InitWith(StreamsCell \cup StreamsColon \cup StreamsType \cup StreamsParen
                   \cup StreamsKeyword,
                {FALSE}, {FALSE}, {TRUE}, {"none"})
    \/ InitWith(StreamsGlobal, BOOLEAN, {FALSE}, {TRUE}, LookupResults)

NextPipe == TokenToBison

SpecPipe == InitPipe /\ [][NextPipe]_vars

\* the step-wise execution, over streams with closed and unclosed groups
StreamsLive ==
    SeqsUpTo({Id("a"), K("#"), K("("), K(")"), K("["), K("]"),
              K("yTYPE__LEX")}, LiveLen)
    \cup {<<Id("m"), K("#"), K("("), K("("), Id("p"), K(")")>>,
          <<Id("m"), K("#"), K("("), K(")"), Id("u"), K("["), K("["), K("]")>>,
          <<Id("m"), K("#"), K("("), K(")"), Id("u"), K("["), K("]"), K("(")>>,
          <<K("."), Id("m"), K("#"), K("("), Id("p")>>,
          <<K("yTYPE__LEX"), K("("), K("("), Id("T"), K(")")>>}
    \cup CellShapes

InitLive == InitWith(StreamsLive, {FALSE}, {FALSE}, {TRUE}, {"none", "Typedef"})

\* the steps the program takes by itself once it has been called
LiveStep == LiveMunge \/ LiveScan \/ LiveScanned \/ LiveReturn

NextLive == LiveCall \/ LiveMunge \/ LiveScan \/ LiveScanned \/ LiveReturn

\* a call, once made, keeps running
SpecLive == InitLive /\ [][NextLive]_vars /\ WF_vars(LiveStep)

\* `line directives, newlines and lint_off / lint_on comments
InitLoc == InitWith({<<>>}, {FALSE}, {FALSE}, {TRUE}, {"none"})

NextLoc == LexPpline \/ LexNewline \/ LexVerilatorCmtLint

SpecLoc == InitLoc /\ [][NextLoc]_vars

\* lint comments while a short stream is tokenized
InitLint == InitWith({<<Id("a"), K(";")>>}, {FALSE}, {FALSE}, {TRUE}, {"none"})

NextLint ==
    \/ LexVerilatorCmtLint
    \/ LexVerilatorCmtLintSave
    \/ LexVerilatorCmtLintRestore
    \/ TokenToBison

SpecLint == InitLint /\ [][NextLint]_vars

\* `line directives, newlines and lint_off / lint_on, FileLines as objects
NextObjects == LexPplineObjects \/ LexNewlineObjects \/ LexVerilatorCmtLintObjects

SpecObjects == InitLoc /\ [][NextObjects]_vars

\* the preprocessor pushes text while the lexer reads it
NextPp == PpPushText \/ PpInputToLex

SpecPp == InitLoc /\ [][NextPp]_vars

\* ------------------------------------------------------------------------
\* Vocabulary of the properties: the raw stream by absolute position
\* ------------------------------------------------------------------------
\* number of tokens that have left the queue
Consumed == lexPos - Len(m_tokensAhead)

\* the kind of the i-th raw token; the sentinel past the end of the stream
RawKind(i) == IF i \in 1..Len(raw) THEN raw[i].token ELSE tEOF

\* the i-th token as the lexer delivers it
RawTok(i) ==
    IF i \in 1..Len(raw)
    THEN [token |-> raw[i].token, strp |-> raw[i].strp, fl |-> i, scp |-> "none"]
    ELSE [token |-> tEOF, strp |-> "", fl |-> i, scp |-> "none"]

\* the absolute position of queue position d
Abs(d) == Consumed + d + 1

\* opening minus closing delimiters among the raw tokens i..j
Bal(i, j, open, close) ==
    Cardinality({x \in i..j : RawKind(x) = open})
    - Cardinality({x \in i..j : RawKind(x) = close})

\* the positions at which the group opened at i is balanced again
Closes(i, open, close) == {j \in (i + 1)..Len(raw) : Bal(i, j, open, close) = 0}

Least(S) == CHOOSE x \in S : \A y \in S : x <= y

\* the group opened at i is closed before the end of input
Closed(i, open, close) == RawKind(i) = open /\ Closes(i, open, close) # {}

\* the position just past the group opened at i
PastGroup(i, open, close) == Least(Closes(i, open, close)) + 1

\* the position just past the maximal run of closed [...] groups starting at i
RECURSIVE PastBrackets(_)
PastBrackets(i) ==
    IF Closed(i, "[", "]") THEN PastBrackets(PastGroup(i, "[", "]")) ELSE i

ScannerOps ==
    {"tokenPeekp", "tokenPipeScanBracket", "tokenPipeScanParam",
     "tokenPipeScanTypeEq", "tokenPipeScanIdCell"}

\* the queue holds exactly the raw tokens pulled and not yet consumed
QueueIsRaw(q, consumed) == \A i \in 1..Len(q) : q[i] = RawTok(consumed + i)

\* ------------------------------------------------------------------------
\* C1: the k-th call of tokenToBison returns the k-th token pulled from the
\* raw scanner, whatever lookahead happened before or during the call: the
\* call consumes exactly the token following the one returned before, and the
\* queue left behind is the pulled-but-unconsumed raw tokens in pull order.
\* ------------------------------------------------------------------------
C1_KthCallKthToken ==
    [][last'.op = "tokenToBison" =>
          /\ m_tokenLastBison'.fl = m_tokenLastBison.fl + 1
          /\ last'.front = RawTok(m_tokenLastBison'.fl)
          /\ m_tokenLastBison'.strp = last'.front.strp
          /\ lexPos' - Len(m_tokensAhead') = m_tokenLastBison'.fl
          /\ QueueIsRaw(m_tokensAhead', m_tokenLastBison'.fl)]_vars

\* the third call returned the third token while the queue was ahead of it
C1_Witness ==
    /\ last.op = "tokenToBison"
    /\ m_tokenLastBison.fl = 3
    /\ m_tokenLastBison.token # tEOF
    /\ Len(m_tokensAhead) >= 1

\* ------------------------------------------------------------------------
\* C2: tokenPeekp and the scanners never remove or reorder queued tokens: the
\* queue before the call is a prefix of the queue after it and what is added
\* are the next raw tokens; only tokenToBison takes tokens out, at the front;
\* a tokenPeekp(d) of a position already queued (so also a repeated one)
\* returns the queued token and pulls nothing.
\* ------------------------------------------------------------------------
C2_PeekNeverConsumes ==
    [][/\ last'.op \in ScannerOps =>
             /\ IsPrefix(m_tokensAhead, m_tokensAhead')
             /\ lexPos' - Len(m_tokensAhead') = Consumed
             /\ QueueIsRaw(m_tokensAhead', Consumed)
       /\ ~IsPrefix(m_tokensAhead, m_tokensAhead') => last'.op = "tokenToBison"
       /\ (last'.op = "tokenPeekp" /\ last'.d < Len(m_tokensAhead)) =>
             /\ lexPos' = lexPos
             /\ m_tokensAhead' = m_tokensAhead
             /\ last'.tok = m_tokensAhead[last'.d + 1]
       /\ (last.op = "tokenPeekp" /\ last'.op = "tokenPeekp" /\ last'.d = last.d) =>
             /\ last'.tok = last.tok
             /\ lexPos' = lexPos]_vars

\* a scanner ran over a queue that already held tokens and made it grow,
\* after tokens had been consumed
C2_Witness ==
    /\ last.op = "tokenPipeScanBracket"
    /\ last.ret > last.d + 1
    /\ Consumed >= 1
    /\ Len(m_tokensAhead) >= 3

\* ------------------------------------------------------------------------
\* C3: every call of tokenToBison terminates and returns one token, whatever
\* the raw stream, unclosed brackets or parentheses included: a call in
\* progress always comes to its return, and the return hands over exactly
\* the one token that follows the token returned before.
\* ------------------------------------------------------------------------
C3_EveryCallReturns ==
    /\ (run.pc # "idle") ~> (run.pc = "idle" /\ last.op = "tokenToBison")
    /\ [][(run.pc # "idle" /\ run'.pc = "idle") =>
              /\ last'.op = "tokenToBison"
              /\ m_tokenLastBison'.fl = m_tokenLastBison.fl + 1]_vars

\* the parse came to the end of a stream that leaves a parenthesis open
\* after a scanner had run into the end of input
C3_Witness ==
    /\ run.pc = "idle"
    /\ ParseEnded
    /\ Bal(1, Len(raw), "(", ")") > 0
    /\ \E i \in 1..Len(raw) : RawKind(i) = "#" /\ RawKind(i + 1) = "("

\* ------------------------------------------------------------------------
\* C4: each of the three structural scanners returns the position it was
\* given whenever it does not recognise its structure, in particular when the
\* end of input comes before the closing delimiter.
\* (Stated as claimed; tokenPipeScanTypeEq does not comply.)
\* ------------------------------------------------------------------------
C4_MissReturnsInput ==
    LET i == Abs(last.d)
        bracketMiss == RawKind(i) # "[" \/ ~Closed(i, "[", "]")
        paramMiss ==
            \/ RawKind(i) # "#"
            \/ RawKind(i + 1) = "(" /\ ~Closed(i + 1, "(", ")")
            \/ /\ RawKind(i + 1) # "("
               /\ ~(last.forCell /\ RawKind(i + 1) \in
                      {"yaINTNUM", "yaFLOATNUM", "yaTIMENUM", "yaID__LEX"})
        typeEqMiss == RawKind(i) # "(" \/ ~Closed(i, "(", ")")
    IN /\ (last.op = "tokenPipeScanBracket" /\ bracketMiss) => last.ret = last.d
       /\ (last.op = "tokenPipeScanParam" /\ paramMiss) => last.ret = last.d
       /\ (last.op = "tokenPipeScanTypeEq" /\ typeEqMiss) => last.ret = last.d

\* ------------------------------------------------------------------------
\* C5 as claimed: tokenPipeScanBracket(d) returns d when the token at d is
\* not `[`, and otherwise the position just past the maximal run of balanced
\* [...] groups starting at d, where the token is not `[` and the nesting
\* counter is zero.
\* ------------------------------------------------------------------------
C5_PastMaximalRun ==
    last.op = "tokenPipeScanBracket" =>
        LET i == Abs(last.d)
        IN /\ RawKind(i) # "[" => last.ret = last.d
           /\ RawKind(i) = "[" =>
                 /\ Abs(last.ret) = PastBrackets(i)
                 /\ RawKind(Abs(last.ret)) # "["
                 /\ last.cnt = 0

\* ------------------------------------------------------------------------
\* C5 amended: tokenPipeScanBracket(d) returns d when the token at d is not
\* `[`; when every group of the run of [...] groups starting at d is closed
\* before the end of input it returns the position just past the run, where
\* the token is not `[` and the nesting counter is zero; when the end of
\* input is met inside a group of the run, the first or a later one, it
\* returns d, where the token is `[`, with the counter positive.
\* ------------------------------------------------------------------------
C5_RunOrInput ==
    last.op = "tokenPipeScanBracket" =>
        LET i == Abs(last.d)
            e == PastBrackets(i)
        IN IF RawKind(e) = "["
           THEN last.ret = last.d /\ RawKind(i) = "[" /\ last.cnt > 0
           ELSE /\ Abs(last.ret) = e
                /\ RawKind(Abs(last.ret)) # "["
                /\ last.cnt = 0
                /\ (RawKind(i) # "[" => last.ret = last.d)

\* the scan went past two groups: [ a ] [ b ] (
C5_Witness ==
    /\ last.op = "tokenPipeScanBracket"
    /\ last.d = 0
    /\ last.ret = 6
    /\ RawKind(Abs(last.ret)) = "("

\* ------------------------------------------------------------------------
\* Shapes the reclassifier rules look for, by absolute position
\* ------------------------------------------------------------------------
\* the position after the optional parameter group in cell form at i: a
\* balanced #(...), or # and one number, time or identifier literal
PastCellParam(i) ==
    IF RawKind(i) = "#" /\ Closed(i + 1, "(", ")") THEN PastGroup(i + 1, "(", ")")
    ELSE IF RawKind(i) = "#" /\ RawKind(i + 1) \in
               {"yaINTNUM", "yaFLOATNUM", "yaTIMENUM", "yaID__LEX"}
         THEN i + 2
    ELSE i

\* after the identifier at i: optional parameter group, instance name, zero
\* or more balanced bracket groups, `(`
CellShape(i) ==
    LET n == PastCellParam(i + 1)
    IN /\ RawKind(n) = "yaID__LEX"
       /\ RawKind(PastBrackets(n + 1)) = "("

\* the token found after skipping the balanced parenthesis group at i, if
\* one starts there, is an equality or inequality operator
EqAfterGroup(i) ==
    IF RawKind(i) = "("
    THEN Closed(i, "(", ")") /\ RawKind(PastGroup(i, "(", ")")) \in EqOps
    ELSE RawKind(i) \in EqOps

\* a call of tokenToBison has just returned the raw token of kind k
Returned(k) == last.op = "tokenToBison" /\ last.front.token = k

\* ------------------------------------------------------------------------
\* C6: a plain identifier is finalized as yaID__aCELL exactly when the token
\* finalized before it is none of `@`, `#`, `.` and it is followed by an
\* optional parameter group in cell form, an instance-name identifier, zero
\* or more balanced bracket groups and `(`.
\* ------------------------------------------------------------------------
C6_CellExactlyWhen ==
    Returned("yaID__LEX") =>
        (m_tokenLastBison.token = "yaID__aCELL"
            <=> /\ last.prev \notin {"@", "#", "."}
                /\ CellShape(m_tokenLastBison.fl))

\* m #(( p )) u [ ] [ i ] ( : a cell behind a parameter group and brackets
C6_Witness ==
    /\ Returned("yaID__LEX")
    /\ m_tokenLastBison.token = "yaID__aCELL"
    /\ RawKind(m_tokenLastBison.fl + 1) = "#"
    /\ RawKind(PastCellParam(m_tokenLastBison.fl + 1) + 1) = "["
    /\ last.prev = ";"

\* ------------------------------------------------------------------------
\* C7: a raw `type` is finalized as yTYPE__EQ exactly when the token found
\* after skipping the balanced parenthesis group that starts at the next
\* token is one of ==, !=, ===, !==; in every other case, nested parentheses
\* and an unclosed group included, it is finalized as yTYPE__ETC.
\* ------------------------------------------------------------------------
C7_TypeEqExactlyWhen ==
    Returned("yTYPE__LEX") =>
        m_tokenLastBison.token =
            IF EqAfterGroup(m_tokenLastBison.fl + 1) THEN "yTYPE__EQ" ELSE "yTYPE__ETC"

\* type ( ( T ) ) !== : an operator behind a group with a nested group
C7_Witness ==
    /\ Returned("yTYPE__LEX")
    /\ m_tokenLastBison.token = "yTYPE__EQ"
    /\ RawKind(m_tokenLastBison.fl + 2) = "("
    /\ Closed(m_tokenLastBison.fl + 1, "(", ")")
    /\ RawKind(PastGroup(m_tokenLastBison.fl + 1, "(", ")")) = "yP_CASENOTEQUAL"

\* ------------------------------------------------------------------------
\* C8: a raw `(` is finalized as yP_PAR__STRENGTH exactly when the next raw
\* token is a signal-strength keyword or the generic strength token, and is
\* otherwise returned as `(`.
\* ------------------------------------------------------------------------
C8_ParenStrength ==
    Returned("(") =>
        m_tokenLastBison.token =
            IF RawKind(m_tokenLastBison.fl + 1) \in StrengthKeywords
            THEN "yP_PAR__STRENGTH" ELSE "("

\* ( ygenSTRENGTH )
C8_Witness ==
    /\ Returned("(")
    /\ m_tokenLastBison.token = "yP_PAR__STRENGTH"
    /\ RawKind(m_tokenLastBison.fl + 1) = "ygenSTRENGTH"

\* ------------------------------------------------------------------------
\* C9: a raw `global` is finalized as yGLOBAL__CLOCKING when the next raw
\* token is `clocking`, whatever the mode; otherwise as yGLOBAL__ETC in
\* pedantic mode; otherwise tokenPipeline demotes it to a plain identifier
\* with the text "global", which the symbol lookup then classifies as any
\* plain identifier.
\* ------------------------------------------------------------------------
C9_GlobalRule ==
    Returned("yGLOBAL__LEX") =>
        IF RawKind(m_tokenLastBison.fl + 1) = "yCLOCKING"
        THEN m_tokenLastBison.token = "yGLOBAL__CLOCKING"
        ELSE IF pedantic THEN m_tokenLastBison.token = "yGLOBAL__ETC"
        ELSE /\ last.pipe.token = "yaID__LEX"
             /\ last.pipe.strp = "global"
             /\ m_tokenLastBison.strp = "global"
             /\ m_tokenLastBison.token = FoundKind(m_tokenLastBison.scp)

\* global clocking in pedantic mode
C9_Witness ==
    /\ Returned("yGLOBAL__LEX")
    /\ pedantic
    /\ m_tokenLastBison.token = "yGLOBAL__CLOCKING"

\* ------------------------------------------------------------------------
\* C10: an identifier unresolved by the scoped or fallback lookup but found
\* in the standard package is classified by the kind found there, and the
\* import of the standard package is spliced into the unit exactly once over
\* the run: once an identifier has resolved through the standard package
\* there is one import, however many identifiers resolved that way.
\* (Stated as claimed; tokenPipelineSym does not comply.)
\* ------------------------------------------------------------------------
C10_StdImportOnce ==
    /\ unitImports <= 1
    /\ (last.op = "tokenToBison" /\ last.viaStd) =>
          /\ unitImports = 1
          /\ last.pipe.token = "yaID__LEX" =>
                m_tokenLastBison.token = FoundKind(m_tokenLastBison.scp)

\* ------------------------------------------------------------------------
\* C11 as claimed: for every identifier-class token, yaID__LEX or yaID__CC,
\* tokenPipelineSym maps the lookup outcome: found as typedef, forward
\* typedef or class gives yaID__aTYPE; found as package or anything else
\* gives yaID__ETC; not found and yaID__CC keeps yaID__CC; not found and
\* yaID__LEX gives yaID__ETC.
\* ------------------------------------------------------------------------
TypeLikeKinds == {"Typedef", "TypedefFwd", "Class"}

\* a call of tokenToBison has just classified an identifier-class token
Classified == last.op = "tokenToBison" /\ last.pipe.token \in {"yaID__LEX", "yaID__CC"}

C11_OutcomeMapping ==
    Classified =>
        m_tokenLastBison.token =
            IF m_tokenLastBison.scp \in TypeLikeKinds THEN "yaID__aTYPE"
            ELSE IF m_tokenLastBison.scp # "none" THEN "yaID__ETC"
            ELSE IF last.pipe.token = "yaID__CC" THEN "yaID__CC"
            ELSE "yaID__ETC"

\* ------------------------------------------------------------------------
\* C11 amended: a yaID__LEX found as typedef, forward typedef or class
\* becomes yaID__aTYPE, found as package or anything else yaID__ETC, not
\* found yaID__ETC; a yaID__CC keeps the kind yaID__CC whether it is found
\* or not, and whatever it is found as.
\* ------------------------------------------------------------------------
C11_PlainMappedQualifiedKept ==
    Classified =>
        m_tokenLastBison.token =
            IF last.pipe.token = "yaID__CC" THEN "yaID__CC"
            ELSE IF m_tokenLastBison.scp \in TypeLikeKinds THEN "yaID__aTYPE"
            ELSE "yaID__ETC"

\* an identifier before `::` was found as a class and kept its kind
C11_Witness ==
    /\ Classified
    /\ last.pipe.token = "yaID__CC"
    /\ m_tokenLastBison.scp = "Class"
    /\ m_tokenLastBison.token = "yaID__CC"

\* ------------------------------------------------------------------------
\* C12: over a run the PKGNODECL diagnostic for an unresolved yaID__CC is
\* emitted at most once, on the first such identifier, however many follow,
\* and never with bboxUnsup; in all these cases the token keeps the kind
\* yaID__CC and is returned.  No other token emits the diagnostic.
\* ------------------------------------------------------------------------
C12_WarnedOncePerRun ==
    [][LET unresolved == /\ last'.op = "tokenToBison"
                         /\ last'.pipe.token = "yaID__CC"
                         /\ m_tokenLastBison'.scp = "none"
       IN /\ unresolved =>
                /\ pkgNoDecl' = (IF bboxUnsup THEN 0 ELSE 1)
                /\ m_tokenLastBison'.token = "yaID__CC"
                /\ m_tokenLastBison'.fl = m_tokenLastBison.fl + 1
          /\ ~unresolved => pkgNoDecl' = pkgNoDecl]_vars

\* a second unresolved qualified identifier went by without a new diagnostic
C12_Witness ==
    /\ last.op = "tokenToBison"
    /\ last.pipe.token = "yaID__CC"
    /\ m_tokenLastBison.scp = "none"
    /\ warned = 2
    /\ pkgNoDecl = 1

\* ------------------------------------------------------------------------
\* C13 as claimed: an exit directive gives the current location the filename
\* and line of the location the matching enter was made from and that
\* location's parent (so n enters followed by n exits end at the filename
\* and line of the original location, without parent), and the content-line
\* counter of the location left is carried into its successor.
\* ------------------------------------------------------------------------
C13_ExitRestoresOrigin ==
    [][(last'.op = "lexPpline" /\ last'.d = 2 /\ lexFileline.parent # NoParent) =>
          /\ lexFileline'.filename = lexFileline.parent[1].filename
          /\ lexFileline'.lineno = lexFileline.parent[1].lineno
          /\ lexFileline'.parent = lexFileline.parent[1].parent
          /\ lexFileline'.contentLineno = lexFileline.contentLineno]_vars

\* ------------------------------------------------------------------------
\* C13 amended: an enter directive makes a snapshot of the current location
\* the parent of the new one; an exit directive gives the current location
\* the parent of the location the matching enter was made from (so after n
\* enters followed by n exits it has the parent the original had, none at top
\* level) and carries the content-line counter of the location left into its
\* successor; filename and line are those the exit directive names, which
\* are the original ones only when the directive repeats them.
\* ------------------------------------------------------------------------
C13_ExitTakesDirectiveLine ==
    [][/\ (last'.op = "lexPpline" /\ last'.d = 1) =>
             /\ lexFileline'.parent = <<lexFileline>>
             /\ lexFileline'.contentLineno = lexFileline.contentLineno
       /\ (last'.op = "lexPpline" /\ last'.d = 2 /\ lexFileline.parent # NoParent) =>
             /\ lexFileline'.parent = lexFileline.parent[1].parent
             /\ Nest(lexFileline') = Nest(lexFileline) - 1
             /\ lexFileline'.contentLineno = lexFileline.contentLineno
             /\ lexFileline'.filename = last'.name
             /\ lexFileline'.lineno = last'.line]_vars

\* back at top level from an included file whose lines were counted,
\* resuming at line 2 of the top file
C13_Witness ==
    /\ last.op = "lexPpline"
    /\ last.d = 2
    /\ last.cnt = 1
    /\ lexFileline.parent = NoParent
    /\ lexFileline.contentLineno = 3
    /\ lexFileline.filename = "top"
    /\ lexFileline.lineno = 2

\* ------------------------------------------------------------------------
\* C14: lint_save pushes the suppression set current at the save and
\* lint_restore on a non-empty stack gives the current location exactly the
\* set saved last and not yet restored, whatever lint_off / lint_on came in
\* between, so saves and restores nest LIFO; the depth of the stack goes up
\* by one on a save, down by one on a successful restore and is changed by
\* nothing else, so it is the number of saves minus successful restores.
\* ------------------------------------------------------------------------
C14_SaveRestoreLifo ==
    [][/\ last'.op = "lexVerilatorCmtLintSave" =>
             /\ m_lexLintState' = Append(m_lexLintState, lexFileline.warnOff)
             /\ lexFileline' = lexFileline
       /\ (last'.op = "lexVerilatorCmtLintRestore" /\ m_lexLintState # <<>>) =>
             /\ lexFileline'.warnOff = m_lexLintState[Len(m_lexLintState)]
             /\ lexFileline' = [lexFileline EXCEPT !.warnOff = lexFileline'.warnOff]
             /\ Len(m_lexLintState') = Len(m_lexLintState) - 1
             /\ IsPrefix(m_lexLintState', m_lexLintState)
       /\ last'.op \notin {"lexVerilatorCmtLintSave", "lexVerilatorCmtLintRestore"} =>
             m_lexLintState' = m_lexLintState]_vars

\* the inner of two nested saves has been restored: the set of the inner
\* save is current again, that of the outer save is still saved and differs
C14_Witness ==
    /\ last.op = "lexVerilatorCmtLintRestore"
    /\ last.cnt = 2
    /\ Len(m_lexLintState) = 1
    /\ lexFileline.warnOff = {"W"}
    /\ m_lexLintState[1] = {"V"}

\* ------------------------------------------------------------------------
\* C15: lint_restore with the lint-state stack empty emits exactly one
\* "without matching save" error and changes nothing: the stack stays empty,
\* the location and its suppression set are unchanged, and so is everything
\* token production depends on; no other step emits that error.
\* ------------------------------------------------------------------------
C15_RestoreOnEmpty ==
    [][IF last'.op = "lexVerilatorCmtLintRestore" /\ m_lexLintState = <<>>
       THEN /\ lintErrors' = lintErrors + 1
            /\ m_lexLintState' = <<>>
            /\ lexFileline' = lexFileline
            /\ UNCHANGED <<raw, lexPos, m_tokensAhead, yylval, m_tokenLastBison,
                           symVars, run>>
       ELSE lintErrors' = lintErrors]_vars

\* a token was returned after a restore had failed with a suppression set
\* in force
C15_Witness ==
    /\ last.op = "tokenToBison"
    /\ m_tokenLastBison.token = ";"
    /\ lintErrors = 1
    /\ m_lexLintState = <<>>
    /\ lexFileline.warnOff = {"W"}

\* ------------------------------------------------------------------------
\* C16 as claimed: the standard-package lookup is attempted for an
\* identifier-class token exactly when the scoped or fallback lookup found
\* nothing and the token is not yaID__CC; an unresolved yaID__CC is never
\* resolved through the standard package.
\* ------------------------------------------------------------------------
\* the scoped or fallback lookup of the token just classified found nothing
LookFoundNothing == m_tokenLastBison.scp = "none" \/ last.viaStd

C16_NotForQualifiedKind ==
    Classified =>
        /\ last.stdTried <=> (LookFoundNothing /\ last.pipe.token # "yaID__CC")
        /\ last.pipe.token = "yaID__CC" => ~last.viaStd

\* ------------------------------------------------------------------------
\* C16 amended: the standard-package lookup is attempted for an
\* identifier-class token, yaID__LEX or yaID__CC, exactly when the scoped or
\* fallback lookup found nothing and the token finalized just before it is
\* not `::`; an unresolved identifier right after `::` is never resolved
\* through the standard package and never triggers the import.
\* ------------------------------------------------------------------------
C16_NotAfterColonColon ==
    Classified =>
        /\ last.stdTried <=> (LookFoundNothing /\ last.prev # "yP_COLONCOLON")
        /\ last.prev = "yP_COLONCOLON" => ~last.viaStd

\* an identifier before `::`, unresolved by the scoped lookup, was resolved
\* through the standard package and the import was spliced
C16_Witness ==
    /\ Classified
    /\ last.pipe.token = "yaID__CC"
    /\ last.prev # "yP_COLONCOLON"
    /\ last.viaStd
    /\ unitImports = 1

\* ------------------------------------------------------------------------
\* C17: the pending scoped-lookup root is one-shot: an identifier-class
\* token that reaches tokenPipelineSym while the root is set is looked up
\* flat under it, and that call clears the root; with no root set the lookup
\* is the fallback lookup from the current scope; a token of another kind
\* leaves the root alone; the root is set by the grammar only.  So a root
\* governs at most one identifier.
\* ------------------------------------------------------------------------
C17_RootIsOneShot ==
    [][/\ last'.op = "tokenToBison" =>
             IF last'.pipe.token \in {"yaID__LEX", "yaID__CC"}
             THEN last'.flat = nextId /\ ~nextId'
             ELSE ~last'.flat /\ nextId' = nextId
       /\ (nextId' /\ ~nextId) => last'.op = "nextId"]_vars

\* a name after `::` was looked up under the root and found as a class, and
\* the root is cleared
C17_Witness ==
    /\ Classified
    /\ last.flat
    /\ ~nextId
    /\ last.prev = "yP_COLONCOLON"
    /\ m_tokenLastBison.token = "yaID__aTYPE"

\* ------------------------------------------------------------------------
\* C18: a plain identifier that is not a cell leaves tokenPipeline as
\* yaID__CC exactly when the next token is `::`, or the next token is `#`,
\* a balanced #(...) group follows and `::` comes directly after it; the
\* short form `# literal ::` and an unclosed `#(` do not qualify; in every
\* other case it leaves tokenPipeline as yaID__LEX.
\* ------------------------------------------------------------------------
\* `::` directly after the identifier at i or after its #(...) group
ColonShape(i) ==
    \/ RawKind(i + 1) = "yP_COLONCOLON"
    \/ /\ RawKind(i + 1) = "#"
       /\ Closed(i + 2, "(", ")")
       /\ RawKind(PastGroup(i + 2, "(", ")")) = "yP_COLONCOLON"

C18_ColonColonExactlyWhen ==
    (Returned("yaID__LEX") /\ last.pipe.token # "yaID__aCELL") =>
        /\ last.pipe.token = (IF ColonShape(m_tokenLastBison.fl) THEN "yaID__CC"
                              ELSE "yaID__LEX")
        /\ ColonShape(m_tokenLastBison.fl) => m_tokenLastBison.token = "yaID__CC"

\* m #(( p )) :: : the `::` behind a parameter group with a nested group
C18_Witness ==
    /\ Returned("yaID__LEX")
    /\ last.pipe.token = "yaID__CC"
    /\ RawKind(m_tokenLastBison.fl + 1) = "#"
    /\ RawKind(m_tokenLastBison.fl + 3) = "("

\* ------------------------------------------------------------------------
\* C19: tokenPipeScanParam(d, forCell) returns d when the token at d is not
\* `#`; the position just past the `)` balancing the `(` when `#(` follows
\* (nested parentheses counted); d + 2 when forCell and d when not, for `#`
\* followed by one integer, real, time or identifier literal; and d for any
\* other token after the `#`.
\* ------------------------------------------------------------------------
ShortFormKinds == ParamLiterals \cup {"yaID__LEX"}

C19_ParamScanReturn ==
    last.op = "tokenPipeScanParam" =>
        LET i == Abs(last.d)
        IN IF RawKind(i) # "#" THEN last.ret = last.d
           ELSE IF RawKind(i + 1) = "("
                THEN IF Closed(i + 1, "(", ")")
                     THEN Abs(last.ret) = PastGroup(i + 1, "(", ")")
                     ELSE last.ret = last.d
           ELSE IF RawKind(i + 1) \in ShortFormKinds
                THEN last.ret = (IF last.forCell THEN last.d + 2 ELSE last.d)
           ELSE last.ret = last.d

\* #(( a )) b scanned from the `#`: the result is past the outer `)`
C19_Witness ==
    /\ last.op = "tokenPipeScanParam"
    /\ RawKind(Abs(last.d)) = "#"
    /\ RawKind(Abs(last.d) + 2) = "("
    /\ Closed(Abs(last.d) + 1, "(", ")")
    /\ last.ret = last.d + 6

\* # 1 scanned for a cell: the short form is taken
C19_WitnessShort ==
    /\ last.op = "tokenPipeScanParam"
    /\ RawKind(Abs(last.d)) = "#"
    /\ RawKind(Abs(last.d) + 1) = "yaTIMENUM"
    /\ last.forCell
    /\ last.ret = last.d + 2

\* ------------------------------------------------------------------------
\* C20: for the raw kinds `:`, const, local, new, static, virtual and with
\* the finalized kind is a function of the raw kind and the next raw token
\* alone: `:` is colon-begin / colon-fork before begin / fork and otherwise
\* unchanged; const before ref is const-ref; local before `::` is
\* local-scope-resolution; new before `(` is new-call; static before
\* constraint is static-constraint; virtual before class / interface / an
\* identifier is virtual-class / virtual-interface / virtual-identifier;
\* with before `(` / `[` / `{` is with-paren / with-bracket / with-brace;
\* every other next token gives the kind's "other" form.
\* ------------------------------------------------------------------------
\* the table: <<raw kind, next raw token, finalized kind>>
KeywordTable ==
    {<<":", "yBEGIN", "yP_COLON__BEGIN">>, <<":", "yFORK", "yP_COLON__FORK">>,
     <<"yCONST__LEX", "yREF", "yCONST__REF">>,
     <<"yLOCAL__LEX", "yP_COLONCOLON", "yLOCAL__COLONCOLON">>,
     <<"yNEW__LEX", "(", "yNEW__PAREN">>,
     <<"ySTATIC__LEX", "yCONSTRAINT", "ySTATIC__CONSTRAINT">>,
     <<"yVIRTUAL__LEX", "yCLASS", "yVIRTUAL__CLASS">>,
     <<"yVIRTUAL__LEX", "yINTERFACE", "yVIRTUAL__INTERFACE">>,
     <<"yVIRTUAL__LEX", "yaID__LEX", "yVIRTUAL__anyID">>,
     <<"yWITH__LEX", "(", "yWITH__PAREN">>, <<"yWITH__LEX", "[", "yWITH__BRA">>,
     <<"yWITH__LEX", "{", "yWITH__CUR">>}

\* the "otherwise" column of the table
KeywordOther ==
    {<<":", ":">>, <<"yCONST__LEX", "yCONST__ETC">>,
     <<"yLOCAL__LEX", "yLOCAL__ETC">>, <<"yNEW__LEX", "yNEW__ETC">>,
     <<"ySTATIC__LEX", "ySTATIC__ETC">>, <<"yVIRTUAL__LEX", "yVIRTUAL__ETC">>,
     <<"yWITH__LEX", "yWITH__ETC">>}

C20_KeywordTable ==
    \A k \in KeywordKinds :
        Returned(k) =>
            LET next == RawKind(m_tokenLastBison.fl + 1)
                rows == {r \in KeywordTable : r[1] = k /\ r[2] = next}
            IN IF rows # {}
               THEN \A r \in rows : m_tokenLastBison.token = r[3]
               ELSE \A o \in KeywordOther :
                        o[1] = k => m_tokenLastBison.token = o[2]

\* `( virtual a`: the identifier after virtual, whatever came before
C20_Witness ==
    /\ Returned("yVIRTUAL__LEX")
    /\ RawKind(m_tokenLastBison.fl + 1) = "yaID__LEX"
    /\ RawKind(m_tokenLastBison.fl - 1) = "("
    /\ m_tokenLastBison.token = "yVIRTUAL__anyID"

\* ------------------------------------------------------------------------
\* C21: a `line exit on a FileLine with a parent makes a newly allocated copy
\* of the parent the current FileLine: its warnings are the parent's (with
\* the pending ignores of the directive's file), its parent is the parent's
\* parent and its content line is that of the FileLine left; no FileLine
\* that existed before is modified by the exit, and every step of the lexer
\* modifies no FileLine but the current one.  An exit without a parent
\* leaves the nesting depth and the parent link as they are.
\* ------------------------------------------------------------------------
C21_ExitCopiesParent ==
    [][/\ \A i \in 1..Len(heap) : i # cur => heap'[i] = heap[i]
       /\ Value(heap', cur') = lexFileline'
       /\ (last'.op = "lexPpline" /\ last'.d = 2) =>
            IF heap[cur].parent # 0
            THEN /\ cur' = Len(heap) + 1
                 /\ Len(heap') = Len(heap) + 1
                 /\ heap'[cur] = heap[cur]
                 /\ heap'[cur'].parent = heap[heap[cur].parent].parent
                 /\ heap'[cur'].contentLineno = heap[cur].contentLineno
                 /\ heap'[cur'].warnOff =
                      heap[heap[cur].parent].warnOff
                        \cup {c \in WarnCodes : <<last'.name, c>> \in PendingIgnores}
            ELSE /\ cur' = cur
                 /\ Len(heap') = Len(heap)
                 /\ heap'[cur].parent = 0
                 /\ Nest(lexFileline') = Nest(lexFileline)]_vars

\* an exit from the second level: the FileLine left had a warning switched
\* off and a content line passed, the current one is new, has the warnings of
\* the parent and the content line of the one left
C21_Witness ==
    /\ last.op = "lexPpline" /\ last.d = 2 /\ last.cnt = 2
    /\ cur = Len(heap)
    /\ heap[cur].parent # 0
    /\ heap[cur].warnOff = {}
    /\ heap[cur].contentLineno = 2
    /\ \E i \in 1..Len(heap) :
          /\ heap[i].parent # 0
          /\ heap[heap[i].parent].parent = heap[cur].parent
          /\ heap[i].warnOff = {"W"}
          /\ heap[i].contentLineno = 2

\* ------------------------------------------------------------------------
\* C22 as claimed: after every tokenToBison call m_afterColonColon is true
\* exactly when the token just returned is `::`, and the standard package is
\* marked as used whenever the identifier with text "std" is finalized while
\* that flag is false.
\* ------------------------------------------------------------------------
C22_StdMarkedWhenNamed ==
    /\ last.op = "tokenToBison" =>
          (m_afterColonColon <=> m_tokenLastBison.token = "yP_COLONCOLON")
    /\ (Classified /\ last.pipe.strp = "std" /\ last.prev # "yP_COLONCOLON") =>
          usesStdPackage

\* ------------------------------------------------------------------------
\* C22: after every tokenToBison call m_afterColonColon is true exactly when
\* the token just returned is `::`, and no other step changes it; the call
\* marks the standard package as used exactly when it finalizes a found
\* identifier "std" of kind yaID__CC (one followed by `::`) while the flag is
\* false, or resolves an identifier through the standard package; a plain or
\* unresolved identifier "std" marks nothing.
\* ------------------------------------------------------------------------
C22_StdMarkedWhenQualifiedFound ==
    [][IF last'.op = "tokenToBison"
       THEN /\ m_afterColonColon' <=> m_tokenLastBison'.token = "yP_COLONCOLON"
            /\ usesStdPackage' <=>
                 \/ usesStdPackage
                 \/ last'.viaStd
                 \/ /\ last'.pipe.token = "yaID__CC"
                    /\ last'.pipe.strp = "std"
                    /\ ~m_afterColonColon
                    /\ m_tokenLastBison'.scp # "none"
       ELSE UNCHANGED <<m_afterColonColon, usesStdPackage>>]_vars

\* std :: with std found by the scoped lookup: marked without an import
C22_Witness ==
    /\ Classified
    /\ last.pipe.token = "yaID__CC"
    /\ last.pipe.strp = "std"
    /\ last.prev # "yP_COLONCOLON"
    /\ ~last.viaStd
    /\ usesStdPackage
    /\ unitImports = 0

\* ------------------------------------------------------------------------
\* C23: tokenToBison never returns one of the raw __LEX kinds (yaID__LEX,
\* yCONST__LEX, yGLOBAL__LEX, yLOCAL__LEX, yNEW__LEX, ySTATIC__LEX,
\* yTYPE__LEX, yVIRTUAL__LEX, yWITH__LEX), whatever the stream, the mode and
\* the symbol table's answers; a `global` demoted to an identifier is not run
\* through the cell and `::` rules and ends as yaID__aTYPE or yaID__ETC.
\* ------------------------------------------------------------------------
C23_NoGenericKind ==
    last.op = "tokenToBison" =>
        /\ m_tokenLastBison.token \notin LexKinds
        /\ yylval.token \notin LexKinds
        /\ (last.front.token = "yGLOBAL__LEX" /\ last.pipe.token \notin
                {"yGLOBAL__CLOCKING", "yGLOBAL__ETC"}) =>
              /\ last.pipe.token = "yaID__LEX"
              /\ m_tokenLastBison.token \in {"yaID__aTYPE", "yaID__ETC"}

\* global #() u ( outside pedantic mode: the demoted global stands where a
\* cell's module name would and is found as a class
C23_Witness ==
    /\ Returned("yGLOBAL__LEX")
    /\ ~pedantic
    /\ RawKind(m_tokenLastBison.fl + 1) = "#"
    /\ RawKind(m_tokenLastBison.fl + 4) = "yaID__LEX"
    /\ RawKind(m_tokenLastBison.fl + 5) = "("
    /\ m_tokenLastBison.scp = "Class"
    /\ m_tokenLastBison.token = "yaID__aTYPE"

\* global :: x outside pedantic mode: the demoted global before `::`
C23_WitnessColon ==
    /\ Returned("yGLOBAL__LEX")
    /\ ~pedantic
    /\ RawKind(m_tokenLastBison.fl + 1) = "yP_COLONCOLON"
    /\ m_tokenLastBison.token = "yaID__ETC"

\* ------------------------------------------------------------------------
\* C24: the token tokenToBison returns carries the text and the source
\* location of the token taken from the front of the queue, the one at the
\* position the call consumed, never those of a token pulled while looking
\* ahead, however many were pulled; the only text changed is the "global" of
\* the demoted global.
\* ------------------------------------------------------------------------
\* the call just returned turned a raw global into an identifier
GlobalDemoted ==
    last.front.token = "yGLOBAL__LEX" /\ last.pipe.token = "yaID__LEX"

C24_NoLookaheadLeak ==
    last.op = "tokenToBison" =>
        /\ last.front = RawTok(Consumed)
        /\ m_tokenLastBison.fl = Consumed
        /\ m_tokenLastBison.strp =
              (IF GlobalDemoted THEN "global" ELSE RawTok(Consumed).strp)
        /\ yylval = m_tokenLastBison
        /\ \A i \in 1..Len(m_tokensAhead) : m_tokensAhead[i] = RawTok(Consumed + i)

\* the first call on m #( p ) u [ ... ( : the cell scan pulled six tokens
\* or more, the token returned is still m of position 1
C24_Witness ==
    /\ Returned("yaID__LEX")
    /\ m_tokenLastBison.fl = 1
    /\ m_tokenLastBison.strp = "m"
    /\ m_tokenLastBison.token = "yaID__aCELL"
    /\ Len(m_tokensAhead) >= 6
    /\ m_tokensAhead[Len(m_tokensAhead)].strp # "m"

\* ------------------------------------------------------------------------
\* C25: as long as the grammar stops calling tokenToBison once it has got
\* the end-of-input sentinel, the lexer is never asked for a token after it
\* has delivered the sentinel: a scanner stops at the first sentinel it
\* peeks, and the call that returns the sentinel reads nothing but, when the
\* queue is empty, the sentinel itself.
\* ------------------------------------------------------------------------
C25_NoReadPastEof ==
    /\ lexPos <= Len(raw) + 1
    /\ \A i \in 1..Len(m_tokensAhead) :
          m_tokensAhead[i].token = tEOF => i = Len(m_tokensAhead)
    /\ Returned(tEOF) =>
          /\ lexPos = Len(raw) + 1
          /\ m_tokensAhead = <<>>

\* the sentinel was returned at the end of a stream whose parameter group
\* was never closed: the scan of the group had met the sentinel
C25_Witness ==
    /\ Returned(tEOF)
    /\ lexPos = Len(raw) + 1
    /\ \E i \in 1..Len(raw) :
          /\ RawKind(i) = "yaID__LEX"
          /\ RawKind(i + 1) = "#"
          /\ RawKind(i + 2) = "("
          /\ ~Closed(i + 2, "(", ")")

\* ------------------------------------------------------------------------
\* C26: ppInputToLex hands the buffered text on without loss or reordering.
\* A call returns at most max_size bytes; a buffer that does not fit is
\* split and what remains of it is put back at the front; the bytes returned
\* over the calls, one after the other, followed by what is still buffered
\* are the texts in the order they were pushed; and with max_size > 0 a call
\* returns 0 only when nothing is buffered.
\* ------------------------------------------------------------------------
\* b is what is left of the buffers a after their first n bytes were taken:
\* whole buffers are gone from the front, the first one left may have lost
\* its beginning, but not all of it
LeftAfter(a, b, n) ==
    /\ Len(b) <= Len(a)
    /\ Flat(b) = SubSeq(Flat(a), n + 1, Len(Flat(a)))
    /\ \A i \in 2..Len(b) : b[i] = a[i + Len(a) - Len(b)]
    /\ b # <<>> => b[1] # <<>>

C26_NoLossNoReorder ==
    [][/\ lexed' \o Flat(m_ppBuffers') = pushed'
       /\ IsPrefix(lexed, lexed')
       /\ IF last'.op = "ppInputToLex"
          THEN /\ last'.ret = Len(lexed') - Len(lexed)
               /\ last'.ret <= last'.d
               /\ LeftAfter(m_ppBuffers, m_ppBuffers', last'.ret)
               /\ (last'.d > 0 /\ last'.ret = 0) => m_ppBuffers = <<>>
          ELSE lexed' = lexed]_vars

\* a call that split a buffer in the middle of the text: bytes of two
\* buffers were returned, the remainder of the second is at the front and
\* another buffer waits behind it
C26_Witness ==
    /\ last.op = "ppInputToLex"
    /\ last.ret = 3
    /\ last.cnt = 3
    /\ Len(m_ppBuffers) = 2
    /\ pushed = <<"a", "b", "b", "a", "a">>
    /\ lexed = <<"a", "b", "b">>
    /\ m_ppBuffers = <<<<"a">>, <<"a">>>>

====
